---- MODULE Spec2Model ----
(***************************************************************************)
(* Model of the chat endpoint of the Purview API integration sample        *)
(* (packages/api/src/functions/chats-post.ts).                             *)
(*                                                                         *)
(* postChats is an async function run by a single-threaded event loop: the *)
(* code between two awaits runs to completion, and requests interleave     *)
(* only at awaits.  Each action below is one such segment: the completion  *)
(* of the awaited call (with its outcome as input) followed by all the     *)
(* synchronous code up to the next await or to the return.                 *)
(*                                                                         *)
(* Texts (answers, file names, label names, rights values) are sequences   *)
(* of one-character strings, so that toLowerCase, includes and replaceAll  *)
(* are computed and not assumed.                                           *)
(***************************************************************************)
EXTENDS Integers, Sequences, FiniteSets, TLC

VARIABLES
    sessionSequenceMap,        \* Map<sessionId, number>, chats-post.ts:49
    sessionProtectionDataMap,  \* Map<userId, {etag, activityExecutionMap}>, chats-post.ts:50
    acceptedAccessRightsEnv,   \* process.env.PURVIEW_ACCEPTED_ACCESS_RIGHTS
    sessionTitle,              \* context title held by the chat history store
    req,                       \* the invocations of postChats, by slot
    maxSequenceSent,           \* by session, the greatest sequence number sent so far
    incrementsSum,             \* by session, the sum of the increments made so far
    scopeRetryDue,             \* the users whose latest invocation has failed before it
                               \* had its modes and who have got no tokens since
    started,                   \* number of invocations of postChats so far
    setContextTasks,           \* the setContext promises nobody awaits, by number
                               \* of each, chats-post.ts:550
    unhandledRejections,       \* whether a promise has rejected with nobody awaiting it
    container,                 \* the chunks in the Cosmos DB container of the vector
                               \* store, documents-post.ts:23
    upload,                    \* the invocation of postDocuments
    deleteTasks,               \* the ids whose delete() promise nobody awaits,
                               \* documents-post.ts:128
    uploadsStarted             \* number of invocations of postDocuments so far

\* the state of postChats
chatVars == <<sessionSequenceMap, sessionProtectionDataMap, acceptedAccessRightsEnv,
              sessionTitle, req, maxSequenceSent, incrementsSum, scopeRetryDue,
              started, setContextTasks>>

\* the state of postDocuments
uploadVars == <<container, upload, deleteTasks, uploadsStarted>>

vars == <<sessionSequenceMap, sessionProtectionDataMap, acceptedAccessRightsEnv,
          sessionTitle, req, maxSequenceSent, incrementsSum, scopeRetryDue,
          started, setContextTasks, unhandledRejections, container, upload,
          deleteTasks, uploadsStarted>>

----------------------------------------------------------------------------
(* Bounds *)

\* invocations of postChats in a run of the serial specification
MaxRequests == 3

\* invocations of postChats in a run of the concurrent specification
MaxConcurrentRequests == 2

MaxRetrieved == 2

MaxEntries == 3

\* postDocuments is invoked at most MaxUploads times
MaxUploads == 2

\* the splitter makes at most MaxChunks chunks of a file
MaxChunks == 1

----------------------------------------------------------------------------
(* Texts *)

UpperCase == <<"A","B","C","D","E","F","G","H","I","J","K","L","M",
               "N","O","P","Q","R","S","T","U","V","W","X","Y","Z">>

LowerCase == <<"a","b","c","d","e","f","g","h","i","j","k","l","m",
               "n","o","p","q","r","s","t","u","v","w","x","y","z">>

\* String.prototype.toLowerCase on one character
LowerChar(c) ==
    IF \E i \in 1..26 : UpperCase[i] = c
    THEN LowerCase[CHOOSE i \in 1..26 : UpperCase[i] = c]
    ELSE c

\* String.prototype.toLowerCase
ToLowerCase(s) == [i \in 1..Len(s) |-> LowerChar(s[i])]

\* does pat occur in s at position i (1-based)
MatchesAt(s, pat, i) ==
    /\ i + Len(pat) - 1 <= Len(s)
    /\ SubSeq(s, i, i + Len(pat) - 1) = pat

\* String.prototype.includes
Includes(s, pat) == \E i \in 1..(Len(s) + 1) : MatchesAt(s, pat, i)

RECURSIVE GetSubstitution(_, _, _, _, _)
\* What replaceAll puts in place of a match of a string pattern at position,
\* reading the replacement text from its k-th character: $$ is $ and $& is
\* the match; a $ before anything else stands for itself (a string pattern
\* has no captures).  The texts here hold no grave accent and no apostrophe,
\* the two other characters that replaceAll reads after a $.
GetSubstitution(matched, s, position, rep, k) ==
    IF k > Len(rep) THEN <<>>
    ELSE IF rep[k] = "$" /\ k < Len(rep) /\ rep[k + 1] \in {"$", "&"}
         THEN (IF rep[k + 1] = "$" THEN <<"$">> ELSE matched)
              \o GetSubstitution(matched, s, position, rep, k + 2)
         ELSE <<rep[k]>> \o GetSubstitution(matched, s, position, rep, k + 1)

RECURSIVE ReplaceFrom(_, _, _, _)
\* replaceAll, scanning s from position i: non-overlapping matches, left to right
ReplaceFrom(s, pat, rep, i) ==
    IF i > Len(s) THEN <<>>
    ELSE IF MatchesAt(s, pat, i)
         THEN GetSubstitution(pat, s, i, rep, 1)
              \o ReplaceFrom(s, pat, rep, i + Len(pat))
         ELSE <<s[i]>> \o ReplaceFrom(s, pat, rep, i + 1)

\* String.prototype.replaceAll with a non-empty string pattern
ReplaceAll(s, pat, rep) == ReplaceFrom(s, pat, rep, 1)

----------------------------------------------------------------------------
(* processProtectionScopeApiResponse *)

\* An activities string is a sequence of tokens: activity names, "," and " ".
\* A scope entry is [isString, activities, executionMode]: isString tells
\* whether entry.activities is a string at all.

RECURSIVE SplitFrom(_, _, _, _)
\* String.prototype.split(sep): cur is the segment being collected
SplitFrom(s, sep, i, cur) ==
    IF i > Len(s) THEN <<cur>>
    ELSE IF s[i] = sep
         THEN <<cur>> \o SplitFrom(s, sep, i + 1, <<>>)
         ELSE SplitFrom(s, sep, i + 1, Append(cur, s[i]))

Split(s, sep) == SplitFrom(s, sep, 1, <<>>)

RECURSIVE TrimStart(_)
TrimStart(s) ==
    IF Len(s) > 0 /\ s[1] = " " THEN TrimStart(Tail(s)) ELSE s

RECURSIVE TrimEnd(_)
TrimEnd(s) ==
    IF Len(s) > 0 /\ s[Len(s)] = " " THEN TrimEnd(SubSeq(s, 1, Len(s) - 1)) ELSE s

\* String.prototype.trim
Trim(s) == TrimEnd(TrimStart(s))

\* chats-post.ts:162-175, the activitiesList of one entry
ActivitiesList(entry) ==
    IF entry.isString
    THEN LET parts == Split(entry.activities, ",")
         IN  [i \in 1..Len(parts) |-> Trim(parts[i])]
    ELSE <<>>

\* Map.prototype.set
MapSet(m, k, v) == [x \in (DOMAIN m) \cup {k} |-> IF x = k THEN v ELSE m[x]]

\* activityExecutionMap.get(k) || 'default': an absent key and an empty mode
\* both give the default
GetMode(m, k) == IF k \in DOMAIN m /\ m[k] # "" THEN m[k] ELSE "default"

EmptyMap == [x \in {} |-> 0]

RECURSIVE SetActivities_LastWins(_, _, _, _)
\* SetActivities without the test: the last entry listing an activity wins
SetActivities_LastWins(m, acts, mode, i) ==
    IF i > Len(acts) THEN m
    ELSE SetActivities_LastWins(MapSet(m, acts[i], mode), acts, mode, i + 1)

RECURSIVE SetActivities(_, _, _, _)
\* chats-post.ts:179-192, the loop over the activities of one entry
SetActivities(m, acts, mode, i) ==
    IF i > Len(acts) THEN m
    ELSE IF acts[i] \notin DOMAIN m \/ mode = "evaluateInline"
         THEN SetActivities(MapSet(m, acts[i], mode), acts, mode, i + 1)
         ELSE SetActivities(m, acts, mode, i + 1)

RECURSIVE BuildActivityExecutionMap(_, _, _)
\* chats-post.ts:161-193, the loop over apiResponse.value
BuildActivityExecutionMap(m, value, i) ==
    IF i > Len(value) THEN m
    ELSE BuildActivityExecutionMap(
             SetActivities(m, ActivitiesList(value[i]), value[i].executionMode, 1),
             value, i + 1)

\* A scope API body is [hasValue, valueType, value]: hasValue tells whether
\* body.value is an array, and valueType what it is: "undefined" stands for
\* every value that for...of cannot iterate (chats-post.ts:161 throws), and
\* "string" for a string, whose characters are entries without activities.
processProtectionScopeApiResponse(apiResponse) ==
    IF ~apiResponse.hasValue /\ apiResponse.valueType # "string"
    THEN [threw |-> TRUE, activityExecutionMap |-> EmptyMap,
          uploadTextExecutionMode |-> "default",
          downloadTextExecutionMode |-> "default"]
    ELSE LET m == IF apiResponse.hasValue
                  THEN BuildActivityExecutionMap(EmptyMap, apiResponse.value, 1)
                  ELSE EmptyMap
         IN  [threw |-> FALSE, activityExecutionMap |-> m,
              uploadTextExecutionMode |-> GetMode(m, <<"uploadText">>),
              downloadTextExecutionMode |-> GetMode(m, <<"downloadText">>)]


----------------------------------------------------------------------------
(* Label filter and citation rewriting *)

\* A retrieved document is [source, label_id, label_name]; an absent label_id
\* is "" and an absent label_name is <<>> (both falsy in the code).
\* The result of getLabelInfo is [threw, isString, rights]: isString tells
\* whether value[0].rights.value is a string.

DefaultText == <<"d","e","f","a","u","l","t">>

UnknownText == <<"U","n","k","n","o","w","n">>

\* chats-post.ts:398; env is [isSet, value]
acceptedAccessRight(env) ==
    ToLowerCase(IF env.isSet THEN env.value ELSE DefaultText)

\* chats-post.ts:414-416
rightsValue(labelInfo) ==
    IF labelInfo.isString THEN ToLowerCase(labelInfo.rights) ELSE <<>>

\* chats-post.ts:404-429, what a label task resolves to once getLabelInfo
\* has returned or thrown
LabelTaskResult(env, labelInfo) ==
    IF labelInfo.threw THEN "null"
    ELSE IF Includes(acceptedAccessRight(env), rightsValue(labelInfo))
         THEN "document"
         ELSE "null"

\* chats-post.ts:400-402, what a label task does before its first await
LabelTaskStart(document) ==
    IF document.label_id = "" THEN "null" ELSE "pending"

RECURSIVE KeepDocuments(_, _, _)
\* chats-post.ts:436, labelResults.filter(d => d !== null)
KeepDocuments(documents, labelResults, i) ==
    IF i > Len(documents) THEN <<>>
    ELSE (IF labelResults[i] = "document" THEN <<documents[i]>> ELSE <<>>)
         \o KeepDocuments(documents, labelResults, i + 1)

\* chats-post.ts:455-457
formattedReference(document) ==
    <<"[">> \o document.source \o <<" ","(","L","a","b","e","l",":"," ">>
    \o (IF document.label_name = <<>> THEN UnknownText ELSE document.label_name)
    \o <<")","]">>

RECURSIVE RewriteCitations(_, _, _)
\* chats-post.ts:452-460
RewriteCitations(text, documents, i) ==
    IF i > Len(documents) THEN text
    ELSE RewriteCitations(
             ReplaceAll(text, <<"[">> \o documents[i].source \o <<"]">>,
                        formattedReference(documents[i])),
             documents, i + 1)


----------------------------------------------------------------------------
(* postChats: the local state of one invocation *)

\* the slots of the invocations that may be in flight together
Reqs == {1, 2}

Sessions == {"s1", "s2"}

Users == {"u1", "u2"}

\* uuidv4() values, one per invocation
Uuids == <<"uuid-1", "uuid-2", "uuid-3", "uuid-4", "uuid-5", "uuid-6">>

Question == <<"q">>

BlockMessage ==
    <<"This action has been blocked due to the security policies enforced by your organization.">>

UnavailableMessage == "Service temporarily unavailable. Please try again later."

BadRequestMessage == "Invalid or missing messages in the request body"

\* no scope API body: body.value is not an array
NoApiResponse == [hasValue |-> FALSE, valueType |-> "unset", value |-> <<>>]

NoResponse == [status |-> 0, body |-> <<>>, error |-> ""]

IdleReq ==
    [pc |-> "idle", request |-> [body |-> "", authorization |-> "", sessionId |-> ""],
     azureOpenAiEndpoint |-> TRUE,
     sessionId |-> "", userId |-> "", accessToken |-> "", appToken |-> "",
     currentSequence |-> 0, etagIdentifier |-> "default",
     apiResponse |-> NoApiResponse,
     promptActionMode |-> "", responseActionMode |-> "",
     protectionScopeState |-> "",
     uploadTextExecutionMode |-> "default",
     downloadTextExecutionMode |-> "default",
     retrievedDocuments |-> <<>>, labelInfo |-> <<>>, labelResults |-> <<>>,
     filteredDocuments |-> <<>>, llmResponse |-> <<>>,
     processedLlmResponse |-> <<>>, calls |-> <<>>, response |-> NoResponse]

NoLabelInfo == [threw |-> FALSE, isString |-> FALSE, rights |-> <<>>]

\* one call to an external collaborator, as recorded in q.calls
Call(api, arg, sequence, content, context) ==
    [api |-> api, arg |-> arg, sequence |-> sequence, content |-> content,
     context |-> context]

Calling(q, call, pc) == [q EXCEPT !.calls = Append(@, call), !.pc = pc]

PolicyApis == {"invokeProcessContentApi", "enqueueOfflinePurviewTasksAsync"}

RECURSIVE RecordSent(_, _, _, _)
\* maxSequenceSent after the policy calls among calls[i..] have been sent
RecordSent(m, sessionId, calls, i) ==
    IF i > Len(calls) THEN m
    ELSE RecordSent(
             IF /\ calls[i].api \in PolicyApis
                /\ (sessionId \in DOMAIN m => calls[i].sequence > m[sessionId])
             THEN MapSet(m, sessionId, calls[i].sequence)
             ELSE m,
             sessionId, calls, i + 1)

\* http-response.ts: data(stream, headers), with the NDJSON lines of the stream
Data(q, lines) ==
    [q EXCEPT !.pc = "done",
              !.response = [status |-> 200, body |-> lines, error |-> ""]]

\* chats-post.ts:577-582
serviceUnavailable(q) ==
    [q EXCEPT !.pc = "done",
              !.response = [status |-> 503, body |-> <<>>,
                            error |-> UnavailableMessage]]

\* chats-post.ts:217-220
badRequest(q) ==
    [q EXCEPT !.pc = "done",
              !.response = [status |-> 400, body |-> <<>>,
                            error |-> BadRequestMessage]]

\* createJsonStreamForBlock yielding the block message twice
createJsonStreamForBlock_Twice(sessionId, message) ==
    <<[content |-> message, role |-> "assistant", sessionId |-> sessionId],
      [content |-> message, role |-> "assistant", sessionId |-> sessionId]>>

\* chats-post.ts:594-607
createJsonStreamForBlock(sessionId, message) ==
    <<[content |-> message, role |-> "assistant", sessionId |-> sessionId]>>

\* jsonStream yielding the answer as the model wrote it
jsonStream_Raw(q) ==
    <<[content |-> q.llmResponse, role |-> "assistant",
       sessionId |-> q.sessionId]>>

\* chats-post.ts:523-538
jsonStream(q) ==
    <<[content |-> q.processedLlmResponse, role |-> "assistant",
       sessionId |-> q.sessionId]>>

\* chats-post.ts:553-576: the offline report, or the answer at once
AfterTitle(q) ==
    IF \/ q.downloadTextExecutionMode = "evaluateOffline"
       \/ q.uploadTextExecutionMode = "evaluateOffline"
    THEN Calling(q, Call("enqueueOfflinePurviewTasksAsync", "", q.currentSequence,
                         q.processedLlmResponse, <<>>), "awaitEnqueue")
    ELSE Data(q, jsonStream(q))

\* chats-post.ts:523-541
ToTitle(q) ==
    Calling(q, Call("getContext", "", -1, <<>>, <<>>), "awaitTitleContext")

\* AfterModel giving the response evaluation the answer as the model wrote it
AfterModel_RawEvaluation(q0, text) ==
    LET q == [q0 EXCEPT !.llmResponse = text,
                        !.processedLlmResponse =
                            RewriteCitations(text, q0.retrievedDocuments, 1)]
    IN  IF q.downloadTextExecutionMode = "evaluateInline"
        THEN Calling(q, Call("invokeProcessContentApi", "downloadText",
                             q.currentSequence, q.llmResponse, <<>>),
                     "awaitResponseEval")
        ELSE ToTitle(q)

\* chats-post.ts:448-481: the answer is collected, its citations rewritten, and
\* the response evaluation called if downloadText is inline
AfterModel(q0, text) ==
    LET q == [q0 EXCEPT !.llmResponse = text,
                        !.processedLlmResponse =
                            RewriteCitations(text, q0.retrievedDocuments, 1)]
    IN  IF q.downloadTextExecutionMode = "evaluateInline"
        THEN Calling(q, Call("invokeProcessContentApi", "downloadText",
                             q.currentSequence, q.processedLlmResponse, <<>>),
                     "awaitResponseEval")
        ELSE ToTitle(q)

\* JoinLabelTasks giving the model every retrieved document
JoinLabelTasks_Unfiltered(q) ==
    IF \E i \in 1..Len(q.labelResults) : q.labelResults[i] = "pending"
    THEN q
    ELSE LET kept == KeepDocuments(q.retrievedDocuments, q.labelResults, 1)
         IN  Calling([q EXCEPT !.filteredDocuments = kept],
                     Call("ragChainWithHistory.stream", "", -1, Question,
                          q.retrievedDocuments),
                     "awaitModel")

\* JoinLabelTasks as Promise.all over tasks that let a lookup failure escape:
\* one failure fails the invocation
JoinLabelTasks_FailFast(q) ==
    IF \E i \in 1..Len(q.labelInfo) : q.labelInfo[i].threw
    THEN serviceUnavailable(q)
    ELSE IF \E i \in 1..Len(q.labelResults) : q.labelResults[i] = "pending"
    THEN q
    ELSE LET kept == KeepDocuments(q.retrievedDocuments, q.labelResults, 1)
         IN  Calling([q EXCEPT !.filteredDocuments = kept],
                     Call("ragChainWithHistory.stream", "", -1, Question, kept),
                     "awaitModel")

\* JoinLabelTasks going on as soon as one label task has settled
JoinLabelTasks_FirstSettled(q) ==
    IF /\ q.labelResults # <<>>
       /\ \A i \in 1..Len(q.labelResults) : q.labelResults[i] = "pending"
    THEN q
    ELSE LET kept == KeepDocuments(q.retrievedDocuments, q.labelResults, 1)
         IN  Calling([q EXCEPT !.filteredDocuments = kept],
                     Call("ragChainWithHistory.stream", "", -1, Question, kept),
                     "awaitModel")

\* chats-post.ts:435-445: once no label task is pending, the documents are
\* filtered and the model is invoked
JoinLabelTasks(q) ==
    IF \E i \in 1..Len(q.labelResults) : q.labelResults[i] = "pending"
    THEN q
    ELSE LET kept == KeepDocuments(q.retrievedDocuments, q.labelResults, 1)
         IN  Calling([q EXCEPT !.filteredDocuments = kept],
                     Call("ragChainWithHistory.stream", "", -1, Question, kept),
                     "awaitModel")

\* chats-post.ts:331-372: models, store and history are set up; with no
\* Azure OpenAI endpoint the FAISS store is loaded first, and in both cases
\* the chain is created
StartPipeline(q) ==
    [q EXCEPT !.pc = IF q.azureOpenAiEndpoint THEN "awaitChain"
                     ELSE "awaitStoreLoad"]

\* chats-post.ts:372-393: the chain is there, the retriever is invoked
InvokeRetriever(q) ==
    Calling(q, Call("retriever.invoke", "", -1, Question, <<>>), "awaitRetriever")

\* AfterScope reading the stored counter again when the prompt evaluation is
\* sent, in place of the value read at the start of the invocation
AfterScope_ReadStored(q) ==
    IF q.uploadTextExecutionMode = "evaluateInline"
    THEN Calling(q, Call("invokeProcessContentApi", "uploadText",
                         IF q.sessionId \in DOMAIN sessionSequenceMap
                         THEN sessionSequenceMap[q.sessionId] ELSE 0,
                         Question, <<>>),
                 "awaitPromptEval")
    ELSE StartPipeline(q)

\* AfterScope sending the prompt to the inline evaluation under every mode
\* but "default"
AfterScope_EvaluatesOffline(q) ==
    IF q.uploadTextExecutionMode # "default"
    THEN Calling(q, Call("invokeProcessContentApi", "uploadText",
                         q.currentSequence, Question, <<>>),
                 "awaitPromptEval")
    ELSE StartPipeline(q)

\* AfterScope starting the retrieval together with the evaluation of the
\* prompt, before the evaluation has returned
AfterScope_RetrievesEarly(q) ==
    IF q.uploadTextExecutionMode = "evaluateInline"
    THEN Calling(Calling(q, Call("retriever.invoke", "", -1, Question, <<>>),
                         "awaitRetriever"),
                 Call("invokeProcessContentApi", "uploadText",
                      q.currentSequence, Question, <<>>),
                 "awaitPromptEval")
    ELSE StartPipeline(q)

\* chats-post.ts:275-294
AfterScope(q) ==
    IF q.uploadTextExecutionMode = "evaluateInline"
    THEN Calling(q, Call("invokeProcessContentApi", "uploadText",
                         q.currentSequence, Question, <<>>),
                 "awaitPromptEval")
    ELSE StartPipeline(q)

\* AfterTokens calling the scope API whether or not an entry is cached
AfterTokens_AlwaysFetch(q, cache) ==
    Calling(q, Call("invokeProtectionScopeApi", "", -1, <<>>, <<>>), "awaitScope")

\* chats-post.ts:239-273: the cached scope is used, or the scope API is called
AfterTokens(q, cache) ==
    IF q.userId \in DOMAIN cache /\ cache[q.userId].etag # ""
    THEN LET stored == cache[q.userId]
         IN  AfterScope([q EXCEPT
                 !.etagIdentifier = stored.etag,
                 !.uploadTextExecutionMode =
                     GetMode(stored.activityExecutionMap, <<"uploadText">>),
                 !.downloadTextExecutionMode =
                     GetMode(stored.activityExecutionMap, <<"downloadText">>)])
    ELSE Calling(q, Call("invokeProtectionScopeApi", "", -1, <<>>, <<>>),
                 "awaitScope")

InFlight == {r \in Reqs : req[r].pc \notin {"idle", "done"}}

\* the invocations whose response has been returned and whose frame is not
\* yet dropped
Returned == {r \in Reqs : req[r].pc = "done"}

\* sessionSequenceMap.get(sessionId) || 0, and the same of the other maps of
\* numbers
SequenceOf(m, sessionId) == IF sessionId \in DOMAIN m THEN m[sessionId] ELSE 0

\* the increments an action of an invocation makes when it takes it from q to
\* q2: 1 for each inline evaluation that has returned (chats-post.ts:296, 483)
\* and 2 for an offline enqueue that has returned (chats-post.ts:570)
Increments(q, q2) ==
    (q2.currentSequence - q.currentSequence)
    + (IF q.pc = "awaitEnqueue" /\ q2.response.status = 200 THEN 2 ELSE 0)

\* scopeRetryDue after a step that takes an invocation from q to q2: its
\* user is added when the invocation, its body read, fails at its
\* Authorization header (chats-post.ts:64-67), at a token exchange (98-111), at the scope call
\* (252) or in the processing of the scope body (259), and is removed when
\* the invocation has got its two tokens (236)
RetryDue(q, q2) ==
    IF /\ q.pc \in {"idle", "awaitObo", "awaitAppToken", "awaitScope"}
       /\ q2.pc = "done"
       /\ q2.response.status = 503
       /\ q2.request.body = "valid"
    THEN scopeRetryDue \cup {q2.userId}
    ELSE IF q.pc = "awaitAppToken" /\ q2.pc # "done"
    THEN scopeRetryDue \ {q2.userId}
    ELSE scopeRetryDue

\* the frame of an action of invocation r that takes it from req[r] to q2
Step(r, q2) ==
    /\ req' = [req EXCEPT ![r] = q2]
    /\ incrementsSum' =
           IF Increments(req[r], q2) = 0 THEN incrementsSum
           ELSE MapSet(incrementsSum, q2.sessionId,
                       SequenceOf(incrementsSum, q2.sessionId)
                       + Increments(req[r], q2))
    /\ maxSequenceSent' = RecordSent(maxSequenceSent, q2.sessionId, q2.calls,
                                      Len(req[r].calls) + 1)
    /\ scopeRetryDue' = RetryDue(req[r], q2)
    /\ UNCHANGED uploadVars


----------------------------------------------------------------------------
(* postChats: the actions *)

BodyKinds == {"valid", "invalidJson", "noMessages", "emptyMessages", "noContent"}

AuthHeaders == {"bearer", "missing", "malformed"}

\* Start accepting an Authorization header of any scheme: only a missing
\* header is refused
Start_AnyScheme(r, sid, uid, body, auth, limit, endpoint) ==
    /\ Returned = {}
    /\ req[r].pc = "idle"
    /\ \A x \in 1..(r - 1) : req[x].pc # "idle"
    /\ started < MaxRequests
    /\ Cardinality(InFlight) < limit
    /\ started' = started + 1
    /\ LET sessionId == IF sid = "" THEN Uuids[started + 1] ELSE sid
           q0 == [IdleReq EXCEPT
                     !.request = [body |-> body, authorization |-> auth,
                                   sessionId |-> sid],
                     !.azureOpenAiEndpoint = endpoint]
           q == [q0 EXCEPT !.sessionId = sessionId, !.userId = uid]
       IN  req' = [req EXCEPT ![r] =
               IF body = "invalidJson"
               THEN serviceUnavailable(q0)
               ELSE IF body \in {"noMessages", "emptyMessages"}
               THEN serviceUnavailable(q)
               ELSE IF body = "noContent" \/ uid = ""
               THEN badRequest(q)
               ELSE LET q1 == [q EXCEPT !.currentSequence =
                                   SequenceOf(sessionSequenceMap, sessionId)]
                    IN  IF auth = "missing"
                        THEN serviceUnavailable(q1)
                        ELSE Calling(q1, Call("acquireTokenOnBehalfOf", "", -1,
                                              <<>>, <<>>), "awaitObo")]
    /\ scopeRetryDue' = RetryDue(req[r], req'[r])
    /\ UNCHANGED <<sessionSequenceMap, sessionProtectionDataMap,
                   acceptedAccessRightsEnv, sessionTitle, maxSequenceSent,
                   incrementsSum, setContextTasks, unhandledRejections>>
    /\ UNCHANGED uploadVars

\* chats-post.ts:207-236 and 61-98.  sid and uid are "" when the client sends
\* none; limit is the number of invocations that may be in flight together;
\* endpoint says whether AZURE_OPENAI_API_ENDPOINT is set.
Start(r, sid, uid, body, auth, limit, endpoint) ==
    /\ Returned = {}
    /\ req[r].pc = "idle"
    /\ \A x \in 1..(r - 1) : req[x].pc # "idle"
    /\ started < MaxRequests
    /\ Cardinality(InFlight) < limit
    /\ started' = started + 1
    /\ LET sessionId == IF sid = "" THEN Uuids[started + 1] ELSE sid
           q0 == [IdleReq EXCEPT
                     !.request = [body |-> body, authorization |-> auth,
                                   sessionId |-> sid],
                     !.azureOpenAiEndpoint = endpoint]
           q == [q0 EXCEPT !.sessionId = sessionId, !.userId = uid]
       IN  req' = [req EXCEPT ![r] =
               IF body = "invalidJson"
               THEN serviceUnavailable(q0)
               ELSE IF body \in {"noMessages", "emptyMessages"}
               THEN serviceUnavailable(q)
               ELSE IF body = "noContent" \/ uid = ""
               THEN badRequest(q)
               ELSE LET q1 == [q EXCEPT !.currentSequence =
                                   SequenceOf(sessionSequenceMap, sessionId)]
                    IN  IF auth # "bearer"
                        THEN serviceUnavailable(q1)
                        ELSE Calling(q1, Call("acquireTokenOnBehalfOf", "", -1,
                                              <<>>, <<>>), "awaitObo")]
    /\ scopeRetryDue' = RetryDue(req[r], req'[r])
    /\ UNCHANGED <<sessionSequenceMap, sessionProtectionDataMap,
                   acceptedAccessRightsEnv, sessionTitle, maxSequenceSent,
                   incrementsSum, setContextTasks, unhandledRejections>>
    /\ UNCHANGED uploadVars

TokenOutcomes == {"throw", "empty", "ok"}

\* chats-post.ts:98-107
OboReturns(r, outcome) ==
    /\ Returned = {}
    /\ req[r].pc = "awaitObo"
    /\ Step(r, IF outcome = "ok"
               THEN Calling([req[r] EXCEPT !.accessToken = "oboToken"],
                            Call("acquireTokenByClientCredential", "", -1,
                                 <<>>, <<>>), "awaitAppToken")
               ELSE serviceUnavailable(req[r]))
    /\ UNCHANGED <<sessionSequenceMap, sessionProtectionDataMap,
                   acceptedAccessRightsEnv, sessionTitle, started,
                   setContextTasks, unhandledRejections>>

\* AppTokenReturns going on without the application token when the
\* client-credential exchange yields none
AppTokenReturns_Tolerant(r, outcome) ==
    /\ Returned = {}
    /\ req[r].pc = "awaitAppToken"
    /\ Step(r, IF outcome = "ok"
               THEN AfterTokens([req[r] EXCEPT !.appToken = "appToken"],
                                sessionProtectionDataMap)
               ELSE IF outcome = "empty"
               THEN AfterTokens(req[r], sessionProtectionDataMap)
               ELSE serviceUnavailable(req[r]))
    /\ UNCHANGED <<sessionSequenceMap, sessionProtectionDataMap,
                   acceptedAccessRightsEnv, sessionTitle, started,
                   setContextTasks, unhandledRejections>>

\* chats-post.ts:104-122 and 236-294
AppTokenReturns(r, outcome) ==
    /\ Returned = {}
    /\ req[r].pc = "awaitAppToken"
    /\ Step(r, IF outcome = "ok"
               THEN AfterTokens([req[r] EXCEPT !.appToken = "appToken"],
                                sessionProtectionDataMap)
               ELSE serviceUnavailable(req[r]))
    /\ UNCHANGED <<sessionSequenceMap, sessionProtectionDataMap,
                   acceptedAccessRightsEnv, sessionTitle, started,
                   setContextTasks, unhandledRejections>>

\* ScopeReturns storing the etag as the scope API returned it
ScopeReturns_StoresReturnedEtag(r, outcome) ==
    /\ Returned = {}
    /\ req[r].pc = "awaitScope"
    /\ LET q == req[r]
           etagIdentifier == IF outcome.etag = "" THEN "default" ELSE outcome.etag
           res == processProtectionScopeApiResponse(outcome.body)
       IN  IF outcome.threw
           THEN /\ Step(r, serviceUnavailable(q))
                /\ UNCHANGED sessionProtectionDataMap
           ELSE IF res.threw
           THEN /\ Step(r, serviceUnavailable([q EXCEPT !.apiResponse = outcome.body]))
                /\ UNCHANGED sessionProtectionDataMap
           ELSE /\ sessionProtectionDataMap' =
                       MapSet(sessionProtectionDataMap, q.userId,
                              [etag |-> outcome.etag,
                               activityExecutionMap |-> res.activityExecutionMap])
                /\ Step(r, AfterScope([q EXCEPT
                       !.apiResponse = outcome.body,
                       !.etagIdentifier = etagIdentifier,
                       !.uploadTextExecutionMode = res.uploadTextExecutionMode,
                       !.downloadTextExecutionMode = res.downloadTextExecutionMode]))
    /\ UNCHANGED <<sessionSequenceMap, acceptedAccessRightsEnv, sessionTitle, started,
                   setContextTasks, unhandledRejections>>

\* ScopeReturns storing the entry of the user before the body is processed
ScopeReturns_CachesFirst(r, outcome) ==
    /\ Returned = {}
    /\ req[r].pc = "awaitScope"
    /\ LET q == req[r]
           etagIdentifier == IF outcome.etag = "" THEN "default" ELSE outcome.etag
           res == processProtectionScopeApiResponse(outcome.body)
       IN  IF outcome.threw
           THEN /\ Step(r, serviceUnavailable(q))
                /\ UNCHANGED sessionProtectionDataMap
           ELSE /\ sessionProtectionDataMap' =
                       MapSet(sessionProtectionDataMap, q.userId,
                              [etag |-> etagIdentifier,
                               activityExecutionMap |->
                                   IF res.threw THEN EmptyMap
                                   ELSE res.activityExecutionMap])
                /\ Step(r, IF res.threw
                           THEN serviceUnavailable([q EXCEPT !.apiResponse = outcome.body])
                           ELSE AfterScope([q EXCEPT
                       !.apiResponse = outcome.body,
                       !.etagIdentifier = etagIdentifier,
                       !.uploadTextExecutionMode = res.uploadTextExecutionMode,
                       !.downloadTextExecutionMode = res.downloadTextExecutionMode]))
    /\ UNCHANGED <<sessionSequenceMap, acceptedAccessRightsEnv, sessionTitle, started,
                   setContextTasks, unhandledRejections>>

\* chats-post.ts:252-294.  outcome is [threw, body, etag]; etag "" is none.
ScopeReturns(r, outcome) ==
    /\ Returned = {}
    /\ req[r].pc = "awaitScope"
    /\ LET q == req[r]
           etagIdentifier == IF outcome.etag = "" THEN "default" ELSE outcome.etag
           res == processProtectionScopeApiResponse(outcome.body)
       IN  IF outcome.threw
           THEN /\ Step(r, serviceUnavailable(q))
                /\ UNCHANGED sessionProtectionDataMap
           ELSE IF res.threw
           THEN /\ Step(r, serviceUnavailable([q EXCEPT !.apiResponse = outcome.body]))
                /\ UNCHANGED sessionProtectionDataMap
           ELSE /\ sessionProtectionDataMap' =
                       MapSet(sessionProtectionDataMap, q.userId,
                              [etag |-> etagIdentifier,
                               activityExecutionMap |-> res.activityExecutionMap])
                /\ Step(r, AfterScope([q EXCEPT
                       !.apiResponse = outcome.body,
                       !.etagIdentifier = etagIdentifier,
                       !.uploadTextExecutionMode = res.uploadTextExecutionMode,
                       !.downloadTextExecutionMode = res.downloadTextExecutionMode]))
    /\ UNCHANGED <<sessionSequenceMap, acceptedAccessRightsEnv, sessionTitle, started,
                   setContextTasks, unhandledRejections>>

\* what invokeProcessContentApi gives.  result is "throw" when the call
\* rejects, "unparsable" when it returns a body that JSON.parse rejects (thrown
\* after the increment of the sequence number), and "json" when the body is
\* parsed; then protectionScopeState is that field of the body and
\* policyActions the action names of its policyActions, in their order
EvalBody(protectionScopeState, policyActions) ==
    [result |-> "json", protectionScopeState |-> protectionScopeState,
     policyActions |-> policyActions]

EvalThrows == [result |-> "throw", protectionScopeState |-> "", policyActions |-> <<>>]

EvalUnparsable ==
    [result |-> "unparsable", protectionScopeState |-> "", policyActions |-> <<>>]

\* a body without policy actions
EvalAllows == EvalBody("notModified", <<>>)

\* a body whose first policy action is not restrictAccess, with a scope that
\* has changed
EvalAudits == EvalBody("modified", <<"audit", "restrictAccess">>)

\* the bodies whose first policy action is restrictAccess
EvalBlocks == EvalBody("notModified", <<"restrictAccess">>)

EvalBlocksModified == EvalBody("modified", <<"restrictAccess", "audit">>)

EvalOutcomes ==
    {EvalThrows, EvalUnparsable, EvalAllows, EvalAudits, EvalBlocks,
     EvalBlocksModified}

\* chats-post.ts:302 and 492: processContentJSONResponse?.protectionScopeState
ScopeState(outcome) == outcome.protectionScopeState

\* chats-post.ts:309 and 499: policyActions?.[0]?.action || 'default'
ActionMode(outcome) ==
    IF Len(outcome.policyActions) > 0 /\ outcome.policyActions[1] # ""
    THEN outcome.policyActions[1]
    ELSE "default"

\* PromptEvalReturns without the increment of chats-post.ts:296
PromptEvalReturns_KeepsSequence(r, outcome) ==
    /\ Returned = {}
    /\ req[r].pc = "awaitPromptEval"
    /\ LET q == [req[r] EXCEPT !.currentSequence = @,
                               !.protectionScopeState = ScopeState(outcome),
                               !.promptActionMode = ActionMode(outcome)]
       IN  CASE outcome.result = "throw" ->
                  /\ Step(r, serviceUnavailable(req[r]))
                  /\ UNCHANGED sessionSequenceMap
             [] outcome.result = "unparsable" ->
                  /\ Step(r, serviceUnavailable([req[r] EXCEPT
                         !.currentSequence = q.currentSequence]))
                  /\ UNCHANGED sessionSequenceMap
             [] ActionMode(outcome) = "restrictAccess" ->
                  /\ sessionSequenceMap' =
                         MapSet(sessionSequenceMap, q.sessionId, q.currentSequence)
                  /\ Step(r, Data(q, createJsonStreamForBlock(q.sessionId, BlockMessage)))
             [] OTHER ->
                  /\ Step(r, StartPipeline(q))
                  /\ UNCHANGED sessionSequenceMap
    /\ UNCHANGED <<sessionProtectionDataMap, acceptedAccessRightsEnv, sessionTitle,
                   started,
                   setContextTasks, unhandledRejections>>

\* chats-post.ts:290-329 and 331-372
PromptEvalReturns(r, outcome) ==
    /\ Returned = {}
    /\ req[r].pc = "awaitPromptEval"
    /\ LET q == [req[r] EXCEPT !.currentSequence = @ + 1,
                               !.protectionScopeState = ScopeState(outcome),
                               !.promptActionMode = ActionMode(outcome)]
       IN  CASE outcome.result = "throw" ->
                  /\ Step(r, serviceUnavailable(req[r]))
                  /\ UNCHANGED sessionSequenceMap
             [] outcome.result = "unparsable" ->
                  /\ Step(r, serviceUnavailable([req[r] EXCEPT
                         !.currentSequence = q.currentSequence]))
                  /\ UNCHANGED sessionSequenceMap
             [] ActionMode(outcome) = "restrictAccess" ->
                  /\ sessionSequenceMap' =
                         MapSet(sessionSequenceMap, q.sessionId, q.currentSequence)
                  /\ Step(r, Data(q, createJsonStreamForBlock(q.sessionId, BlockMessage)))
             [] OTHER ->
                  /\ Step(r, StartPipeline(q))
                  /\ UNCHANGED sessionSequenceMap
    /\ UNCHANGED <<sessionProtectionDataMap, acceptedAccessRightsEnv, sessionTitle,
                   started,
                   setContextTasks, unhandledRejections>>

RECURSIVE StartLabelTasks(_, _)
\* chats-post.ts:400-405: every label task runs up to its getLabelInfo call
StartLabelTasks(q, i) ==
    IF i > Len(q.retrievedDocuments) THEN q
    ELSE LET document == q.retrievedDocuments[i]
             q1 == [q EXCEPT !.labelResults = Append(@, LabelTaskStart(document)),
                             !.labelInfo = Append(@, NoLabelInfo)]
         IN  StartLabelTasks(
                 IF LabelTaskStart(document) = "pending"
                 THEN [q1 EXCEPT !.calls = Append(@,
                          Call("getLabelInfo", document.label_id, -1, <<>>, <<>>))]
                 ELSE q1,
                 i + 1)

\* chats-post.ts:364-372, the branch without an Azure OpenAI endpoint: the
\* awaited FaissStore.load settles; a rejection is caught at 577
FaissStoreLoadReturns(r, threw) ==
    /\ Returned = {}
    /\ req[r].pc = "awaitStoreLoad"
    /\ Step(r, IF threw
               THEN serviceUnavailable(req[r])
               ELSE [req[r] EXCEPT !.pc = "awaitChain"])
    /\ UNCHANGED <<sessionSequenceMap, sessionProtectionDataMap,
                   acceptedAccessRightsEnv, sessionTitle, started,
                   setContextTasks, unhandledRejections>>

\* chats-post.ts:372-393: the awaited createStuffDocumentsChain settles; a
\* rejection is caught at 577, otherwise the retriever is invoked
ChainReturns(r, threw) ==
    /\ Returned = {}
    /\ req[r].pc = "awaitChain"
    /\ Step(r, IF threw
               THEN serviceUnavailable(req[r])
               ELSE InvokeRetriever(req[r]))
    /\ UNCHANGED <<sessionSequenceMap, sessionProtectionDataMap,
                   acceptedAccessRightsEnv, sessionTitle, started,
                   setContextTasks, unhandledRejections>>

\* chats-post.ts:393-445.  outcome is [threw, documents].
RetrieverReturns(r, outcome) ==
    /\ Returned = {}
    /\ req[r].pc = "awaitRetriever"
    /\ Step(r, IF outcome.threw
               THEN serviceUnavailable(req[r])
               ELSE JoinLabelTasks(StartLabelTasks(
                        [req[r] EXCEPT !.retrievedDocuments = outcome.documents,
                                       !.pc = "awaitLabels"], 1)))
    /\ UNCHANGED <<sessionSequenceMap, sessionProtectionDataMap,
                   acceptedAccessRightsEnv, sessionTitle, started,
                   setContextTasks, unhandledRejections>>

\* chats-post.ts:405-445: getLabelInfo returns or throws for document i
LabelInfoReturns(r, i, labelInfo) ==
    /\ Returned = {}
    /\ req[r].pc = "awaitLabels"
    /\ i \in 1..Len(req[r].labelResults)
    /\ req[r].labelResults[i] = "pending"
    /\ Step(r, JoinLabelTasks([req[r] EXCEPT
                   !.labelInfo[i] = labelInfo,
                   !.labelResults[i] =
                       LabelTaskResult(acceptedAccessRightsEnv, labelInfo)]))
    /\ UNCHANGED <<sessionSequenceMap, sessionProtectionDataMap,
                   acceptedAccessRightsEnv, sessionTitle, started,
                   setContextTasks, unhandledRejections>>

\* chats-post.ts:439-481 and 523-541.  outcome is [threw, text].
ModelReturns(r, outcome) ==
    /\ Returned = {}
    /\ req[r].pc = "awaitModel"
    /\ Step(r, IF outcome.threw
               THEN serviceUnavailable(req[r])
               ELSE AfterModel(req[r], outcome.text))
    /\ UNCHANGED <<sessionSequenceMap, sessionProtectionDataMap,
                   acceptedAccessRightsEnv, sessionTitle, started,
                   setContextTasks, unhandledRejections>>

\* ResponseEvalReturns that treats a failed evaluation as one that allows
\* the answer
ResponseEvalReturns_FailOpen(r, outcome) ==
    /\ Returned = {}
    /\ req[r].pc = "awaitResponseEval"
    /\ LET q == [req[r] EXCEPT !.currentSequence = @ + 1,
                               !.protectionScopeState = ScopeState(outcome),
                               !.responseActionMode = ActionMode(outcome)]
       IN  CASE outcome.result = "throw" ->
                  /\ Step(r, ToTitle(req[r]))
                  /\ UNCHANGED sessionSequenceMap
             [] outcome.result = "unparsable" ->
                  /\ Step(r, ToTitle([req[r] EXCEPT
                         !.currentSequence = q.currentSequence]))
                  /\ UNCHANGED sessionSequenceMap
             [] ActionMode(outcome) = "restrictAccess" ->
                  /\ sessionSequenceMap' =
                         MapSet(sessionSequenceMap, q.sessionId, q.currentSequence)
                  /\ Step(r, Data(q, createJsonStreamForBlock(q.sessionId, BlockMessage)))
             [] OTHER ->
                  /\ Step(r, ToTitle(q))
                  /\ UNCHANGED sessionSequenceMap
    /\ UNCHANGED <<sessionProtectionDataMap, acceptedAccessRightsEnv, sessionTitle,
                   started,
                   setContextTasks, unhandledRejections>>

\* ResponseEvalReturns going on to the title step with the block message as
\* the answer when the evaluation says restrictAccess
ResponseEvalReturns_TitlesBlocked(r, outcome) ==
    /\ Returned = {}
    /\ req[r].pc = "awaitResponseEval"
    /\ LET q == [req[r] EXCEPT !.currentSequence = @ + 1,
                               !.protectionScopeState = ScopeState(outcome),
                               !.responseActionMode = ActionMode(outcome)]
       IN  CASE outcome.result = "throw" ->
                  /\ Step(r, serviceUnavailable(req[r]))
                  /\ UNCHANGED sessionSequenceMap
             [] outcome.result = "unparsable" ->
                  /\ Step(r, serviceUnavailable([req[r] EXCEPT
                         !.currentSequence = q.currentSequence]))
                  /\ UNCHANGED sessionSequenceMap
             [] ActionMode(outcome) = "restrictAccess" ->
                  /\ sessionSequenceMap' =
                         MapSet(sessionSequenceMap, q.sessionId, q.currentSequence)
                  /\ Step(r, ToTitle([q EXCEPT !.processedLlmResponse = BlockMessage]))
             [] OTHER ->
                  /\ Step(r, ToTitle(q))
                  /\ UNCHANGED sessionSequenceMap
    /\ UNCHANGED <<sessionProtectionDataMap, acceptedAccessRightsEnv, sessionTitle,
                   started,
                   setContextTasks, unhandledRejections>>

\* chats-post.ts:477-541
ResponseEvalReturns(r, outcome) ==
    /\ Returned = {}
    /\ req[r].pc = "awaitResponseEval"
    /\ LET q == [req[r] EXCEPT !.currentSequence = @ + 1,
                               !.protectionScopeState = ScopeState(outcome),
                               !.responseActionMode = ActionMode(outcome)]
       IN  CASE outcome.result = "throw" ->
                  /\ Step(r, serviceUnavailable(req[r]))
                  /\ UNCHANGED sessionSequenceMap
             [] outcome.result = "unparsable" ->
                  /\ Step(r, serviceUnavailable([req[r] EXCEPT
                         !.currentSequence = q.currentSequence]))
                  /\ UNCHANGED sessionSequenceMap
             [] ActionMode(outcome) = "restrictAccess" ->
                  /\ sessionSequenceMap' =
                         MapSet(sessionSequenceMap, q.sessionId, q.currentSequence)
                  /\ Step(r, Data(q, createJsonStreamForBlock(q.sessionId, BlockMessage)))
             [] OTHER ->
                  /\ Step(r, ToTitle(q))
                  /\ UNCHANGED sessionSequenceMap
    /\ UNCHANGED <<sessionProtectionDataMap, acceptedAccessRightsEnv, sessionTitle,
                   started,
                   setContextTasks, unhandledRejections>>

\* the title of a session in the history store, "" when none is set
TitleOf(sessionId) ==
    IF sessionId \in DOMAIN sessionTitle THEN sessionTitle[sessionId] ELSE ""

\* GetContextReturns asking the title model for a title whether or not the
\* session has one
GetContextReturns_AlwaysTitles(r, threw) ==
    /\ Returned = {}
    /\ req[r].pc = "awaitTitleContext"
    /\ Step(r, IF threw
               THEN serviceUnavailable(req[r])
               ELSE Calling(req[r], Call("titleModel.invoke", "", -1, Question, <<>>),
                            "awaitTitleModel"))
    /\ UNCHANGED <<sessionSequenceMap, sessionProtectionDataMap,
                   acceptedAccessRightsEnv, sessionTitle, started,
                   setContextTasks, unhandledRejections>>

\* chats-post.ts:541-576
GetContextReturns(r, threw) ==
    /\ Returned = {}
    /\ req[r].pc = "awaitTitleContext"
    /\ Step(r, IF threw
               THEN serviceUnavailable(req[r])
               ELSE IF TitleOf(req[r].sessionId) = ""
               THEN Calling(req[r], Call("titleModel.invoke", "", -1, Question, <<>>),
                            "awaitTitleModel")
               ELSE AfterTitle(req[r]))
    /\ UNCHANGED <<sessionSequenceMap, sessionProtectionDataMap,
                   acceptedAccessRightsEnv, sessionTitle, started,
                   setContextTasks, unhandledRejections>>

\* chats-post.ts:543-576.  outcome is [threw, title].  setContext is called
\* and not awaited: its promise settles later, in SetContextSettles.
TitleModelReturns(r, outcome) ==
    /\ Returned = {}
    /\ req[r].pc = "awaitTitleModel"
    /\ IF outcome.threw
       THEN /\ Step(r, serviceUnavailable(req[r]))
            /\ UNCHANGED setContextTasks
       ELSE /\ LET task == [sessionId |-> req[r].sessionId, title |-> outcome.title]
               IN  setContextTasks' =
                       MapSet(setContextTasks, task, SequenceOf(setContextTasks, task) + 1)
            /\ Step(r, AfterTitle(req[r]))
    /\ UNCHANGED <<sessionSequenceMap, sessionProtectionDataMap,
                   acceptedAccessRightsEnv, sessionTitle, started,
                   unhandledRejections>>

\* chats-post.ts:550: the promise of a setContext call settles.  The title is
\* stored, or the promise rejects, which no handler receives.
SetContextSettles(task, threw) ==
    /\ Returned = {}
    /\ task \in DOMAIN setContextTasks
    /\ setContextTasks' =
           IF setContextTasks[task] = 1
           THEN [t \in DOMAIN setContextTasks \ {task} |-> setContextTasks[t]]
           ELSE MapSet(setContextTasks, task, setContextTasks[task] - 1)
    /\ sessionTitle' = IF threw THEN sessionTitle
                       ELSE MapSet(sessionTitle, task.sessionId, task.title)
    /\ unhandledRejections' = (unhandledRejections \/ threw)
    /\ UNCHANGED <<sessionSequenceMap, sessionProtectionDataMap,
                   acceptedAccessRightsEnv, req, maxSequenceSent, incrementsSum,
                   scopeRetryDue,
                   started>>
    /\ UNCHANGED uploadVars

\* EnqueueReturns storing the new counter for every session that has one
EnqueueReturns_WritesAllSessions(r, threw) ==
    /\ Returned = {}
    /\ req[r].pc = "awaitEnqueue"
    /\ IF threw
       THEN /\ Step(r, serviceUnavailable(req[r]))
            /\ UNCHANGED sessionSequenceMap
       ELSE /\ sessionSequenceMap' =
                   [s \in DOMAIN sessionSequenceMap \cup {req[r].sessionId} |->
                       req[r].currentSequence + 2]
            /\ Step(r, Data(req[r], jsonStream(req[r])))
    /\ UNCHANGED <<sessionProtectionDataMap, acceptedAccessRightsEnv, sessionTitle,
                   started,
                   setContextTasks, unhandledRejections>>

\* EnqueueReturns storing the counter before the outcome of the enqueue is
\* known
EnqueueReturns_WritesFirst(r, threw) ==
    /\ Returned = {}
    /\ req[r].pc = "awaitEnqueue"
    /\ sessionSequenceMap' =
           MapSet(sessionSequenceMap, req[r].sessionId, req[r].currentSequence + 2)
    /\ Step(r, IF threw THEN serviceUnavailable(req[r])
               ELSE Data(req[r], jsonStream(req[r])))
    /\ UNCHANGED <<sessionProtectionDataMap, acceptedAccessRightsEnv, sessionTitle,
                   started, setContextTasks, unhandledRejections>>

\* chats-post.ts:555-582
EnqueueReturns(r, threw) ==
    /\ Returned = {}
    /\ req[r].pc = "awaitEnqueue"
    /\ IF threw
       THEN /\ Step(r, serviceUnavailable(req[r]))
            /\ UNCHANGED sessionSequenceMap
       ELSE /\ sessionSequenceMap' =
                   MapSet(sessionSequenceMap, req[r].sessionId,
                          req[r].currentSequence + 2)
            /\ Step(r, Data(req[r], jsonStream(req[r])))
    /\ UNCHANGED <<sessionProtectionDataMap, acceptedAccessRightsEnv, sessionTitle,
                   started,
                   setContextTasks, unhandledRejections>>


\* chats-post.ts:206-583: postChats has returned, its frame is dropped.  The
\* other actions wait for it, which loses no behaviour: the frame of a
\* returned invocation is read by nobody.
Discard(r) ==
    /\ req[r].pc = "done"
    /\ req' = [req EXCEPT ![r] = IdleReq]
    /\ UNCHANGED <<sessionSequenceMap, sessionProtectionDataMap,
                   acceptedAccessRightsEnv, sessionTitle, maxSequenceSent,
                   incrementsSum, scopeRetryDue, started, setContextTasks,
                   unhandledRejections>>
    /\ UNCHANGED uploadVars

----------------------------------------------------------------------------
(* postDocuments, with the Azure OpenAI, Cosmos DB and storage endpoints set *)

Filenames == {"a.pdf", "b.pdf"}

\* the labelName field of the form, "" when the form has none
LabelNames == {"", "Confidential"}

IdleUpload ==
    [pc |-> "idle", filename |-> "", labelName |-> "", shouldUpdate |-> FALSE,
     documents |-> {}, number |-> 0, response |-> NoResponse]

\* a chunk in the container: a chunk of the file source, the k-th chunk that
\* the given invocation of postDocuments has stored
Chunk(number, k, source, labelName) ==
    [id |-> [upload |-> number, k |-> k], source |-> source,
     label_name |-> labelName]

\* documents-post.ts:66-71 and 119-124: SELECT * FROM c WHERE
\* c.metadata.source = @filename
QueryBySource(items, filename) == {c \in items : c.source = filename}

\* documents-post.ts:178
ok(u) ==
    [u EXCEPT !.pc = "done",
              !.response = [status |-> 200, body |-> <<>>,
                            error |-> ""]]

\* documents-post.ts:30-32
badRequestFile(u) ==
    [u EXCEPT !.pc = "done",
              !.response = [status |-> 400, body |-> <<>>,
                            error |-> "Required field \"file\" is missing from form data."]]

\* documents-post.ts:27-81: the form is read; form is "file", "noFile" or
\* "invalid" (formData() throws).  An invocation starts when the one before
\* has returned.
UploadStart(form, filename, labelName) ==
    /\ upload.pc \in {"idle", "done"}
    /\ uploadsStarted < MaxUploads
    /\ uploadsStarted' = uploadsStarted + 1
    /\ LET u == [IdleUpload EXCEPT
                    !.filename = filename,
                    !.labelName = IF labelName = "" THEN "General" ELSE labelName,
                    !.number = uploadsStarted + 1]
       IN  upload' = CASE form = "invalid" -> serviceUnavailable(IdleUpload)
                       [] form = "noFile" -> badRequestFile(IdleUpload)
                       [] OTHER -> [u EXCEPT !.pc = "awaitExistsQuery"]
    /\ UNCHANGED <<container, deleteTasks, unhandledRejections>>
    /\ UNCHANGED chatVars

\* documents-post.ts:71-87: the query for chunks of the file returns or
\* throws; a throw is logged and the upload goes on
ExistsQueryReturns(threw) ==
    /\ upload.pc = "awaitExistsQuery"
    /\ upload' = [upload EXCEPT
                     !.shouldUpdate =
                         ~threw /\ QueryBySource(container, upload.filename) # {},
                     !.pc = "awaitLoad"]
    /\ UNCHANGED <<container, deleteTasks, uploadsStarted, unhandledRejections>>
    /\ UNCHANGED chatVars

\* documents-post.ts:87-124: the PDF is loaded and split into n chunks that
\* carry the file name and the label
LoadReturns(threw, n) ==
    /\ upload.pc = "awaitLoad"
    /\ upload' =
           IF threw THEN serviceUnavailable(upload)
           ELSE [upload EXCEPT
                    !.documents = {Chunk(upload.number, k, upload.filename,
                                         upload.labelName) : k \in 1..n},
                    !.pc = IF upload.shouldUpdate THEN "awaitDeleteQuery"
                           ELSE "awaitStore"]
    /\ UNCHANGED <<container, deleteTasks, uploadsStarted, unhandledRejections>>
    /\ UNCHANGED chatVars

\* documents-post.ts:124-142: the query for the chunks to delete returns or
\* throws (logged).  delete() is called on every chunk found and none of the
\* promises is awaited: they settle later, in DeleteSettles.
DeleteQueryReturns(threw) ==
    /\ upload.pc = "awaitDeleteQuery"
    /\ deleteTasks' =
           IF threw THEN deleteTasks
           ELSE deleteTasks
                \cup {[id |-> c.id, by |-> upload.number] :
                         c \in QueryBySource(container, upload.filename)}
    /\ upload' = [upload EXCEPT !.pc = "awaitStore"]
    /\ UNCHANGED <<container, uploadsStarted, unhandledRejections>>
    /\ UNCHANGED chatVars

\* documents-post.ts:128: the promise of a delete() settles.  The chunk is
\* removed, or the promise rejects (the request failed, or the chunk is
\* gone already), which no handler receives.
DeleteSettles(task, threw) ==
    /\ task \in deleteTasks
    /\ deleteTasks' = deleteTasks \ {task}
    /\ container' = IF threw THEN container
                    ELSE {c \in container : c.id # task.id}
    /\ unhandledRejections' =
           (unhandledRejections \/ threw \/ \A c \in container : c.id # task.id)
    /\ UNCHANGED <<upload, uploadsStarted>>
    /\ UNCHANGED chatVars

\* documents-post.ts:142-173: AzureCosmosDBNoSQLVectorStore.fromDocuments
\* has stored the chunks, or throws
StoreReturns(threw) ==
    /\ upload.pc = "awaitStore"
    /\ IF threw
       THEN /\ upload' = serviceUnavailable(upload)
            /\ UNCHANGED container
       ELSE /\ container' = container \cup upload.documents
            /\ upload' = [upload EXCEPT !.pc = "awaitBlob"]
    /\ UNCHANGED <<deleteTasks, uploadsStarted, unhandledRejections>>
    /\ UNCHANGED chatVars

\* documents-post.ts:170-184: the file is in blob storage, or the upload throws
BlobReturns(threw) ==
    /\ upload.pc = "awaitBlob"
    /\ upload' = IF threw THEN serviceUnavailable(upload) ELSE ok(upload)
    /\ UNCHANGED <<container, deleteTasks, uploadsStarted, unhandledRejections>>
    /\ UNCHANGED chatVars

----------------------------------------------------------------------------
(* The inputs *)

Entry(activities, executionMode) ==
    [isString |-> TRUE, activities |-> activities, executionMode |-> executionMode]

ScopeBody(value) == [hasValue |-> TRUE, valueType |-> "array", value |-> value]

\* a body with no value, or one that is null, a number or an object
MalformedScopeBody == [hasValue |-> FALSE, valueType |-> "undefined", value |-> <<>>]

\* a body whose value is a string
StringScopeBody == [hasValue |-> FALSE, valueType |-> "string", value |-> <<>>]

ScopeOutcome(body, etag) == [threw |-> FALSE, body |-> body, etag |-> etag]

ScopeThrows == [threw |-> TRUE, body |-> MalformedScopeBody, etag |-> ""]

Both == <<"uploadText", ",", "downloadText">>

Modes == {"default", "evaluateInline", "evaluateOffline"}

\* scope bodies giving every pair of modes, some through a conflict between
\* entries
ScopeBodies ==
    {ScopeBody(<<>>),
     ScopeBody(<<Entry(Both, "evaluateInline")>>),
     ScopeBody(<<Entry(Both, "evaluateOffline")>>),
     ScopeBody(<<Entry(<<"uploadText">>, "evaluateInline")>>),
     ScopeBody(<<Entry(<<"downloadText">>, "evaluateInline")>>),
     ScopeBody(<<Entry(Both, "evaluateOffline"),
                 Entry(<<" ", "uploadText">>, "evaluateInline")>>),
     ScopeBody(<<Entry(<<"uploadText">>, "evaluateOffline"),
                 Entry(<<"downloadText">>, "evaluateInline"),
                 Entry(<<"uploadText">>, "default")>>),
     ScopeBody(<<Entry(<<"uploadFile">>, "evaluateInline"),
                 Entry(<<"downloadText">>, "evaluateOffline")>>)}

ScopeOutcomes ==
    {ScopeThrows, ScopeOutcome(MalformedScopeBody, "e1"),
     ScopeOutcome(StringScopeBody, "e1")}
    \cup {ScopeOutcome(b, "e1") : b \in ScopeBodies}
    \cup {ScopeOutcome(ScopeBody(<<Entry(Both, "evaluateInline")>>), "")}

DocA == [source |-> <<"a">>, label_id |-> "L1", label_name |-> <<"G">>]

DocB == [source |-> <<"b">>, label_id |-> "L2", label_name |-> <<>>]

DocC == [source |-> <<"c">>, label_id |-> "", label_name |-> <<>>]

Corpus == {DocA, DocB, DocC}

\* what the retriever may return: up to MaxRetrieved different documents of
\* the corpus, in any order
RetrievedDocuments ==
    {d \in UNION {[1..n -> Corpus] : n \in 0..MaxRetrieved} :
        \A i, j \in 1..Len(d) : d[i] = d[j] => i = j}

RetrieverOutcomes ==
    {[threw |-> TRUE, documents |-> <<>>]}
    \cup {[threw |-> FALSE, documents |-> d] : d \in RetrievedDocuments}

LabelThrows == [threw |-> TRUE, isString |-> FALSE, rights |-> <<>>]

LabelRights(rights) == [threw |-> FALSE, isString |-> TRUE, rights |-> rights]

\* what getLabelInfo may give: a failure, a rights string, or no rights string
LabelInfos ==
    {LabelThrows, NoLabelInfo,
     LabelRights(<<"V","I","E","W">>), LabelRights(<<"O","w","n","e","r">>),
     LabelRights(<<>>)}

EnvUnset == [isSet |-> FALSE, value |-> <<>>]

EnvViewEdit == [isSet |-> TRUE, value |-> <<"V","i","e","w",",","E","d","i","t">>]

AcceptedAccessRightsEnvs == {EnvUnset, EnvViewEdit}

ModelOutcomes ==
    {[threw |-> TRUE, text |-> <<>>],
     [threw |-> FALSE, text |-> <<"x", "[", "a", "]">>],
     [threw |-> FALSE, text |-> <<"[", "b", "]", "[", "a", "]">>]}

TitleOutcomes ==
    {[threw |-> TRUE, title |-> ""], [threw |-> FALSE, title |-> "T"]}

----------------------------------------------------------------------------
(* One invocation of postChats, with every input *)

\* the entry that chats-post.ts:262 stores for a user whose scope lookup
\* returned body with the etag "e1"
CachedScope(body) ==
    [etag |-> "e1",
     activityExecutionMap |-> processProtectionScopeApiResponse(body).activityExecutionMap]

\* chats-post.ts:49-50 and 209-220: no invocation has got past its body; the
\* maps are as they are when the module is loaded
NothingStored ==
    /\ sessionSequenceMap = EmptyMap
    /\ sessionProtectionDataMap = EmptyMap
    /\ sessionTitle = EmptyMap
    /\ maxSequenceSent = EmptyMap
    /\ incrementsSum = EmptyMap

\* chats-post.ts:262, 550 and 570: user u2 has asked once in session s1 with
\* the prompt evaluated inline and the answer enqueued offline; the title "T"
\* of the session is stored
AnsweredOnce ==
    /\ sessionSequenceMap = [x \in {"s1"} |-> 3]
    /\ sessionProtectionDataMap =
           [x \in {"u2"} |->
               CachedScope(ScopeBody(<<Entry(<<"uploadText">>, "evaluateInline"),
                                       Entry(<<"downloadText">>, "evaluateOffline")>>))]
    /\ sessionTitle = [x \in {"s1"} |-> "T"]
    /\ maxSequenceSent = [x \in {"s1"} |-> 1]
    /\ incrementsSum = [x \in {"s1"} |-> 3]

\* the states in which the invocation starts: all but one of the invocations
\* have run, those that left nothing behind failed at their body (215-220).
\* The invocation is of user u1, who has no scope entry, of a user who has
\* one, or of no user.
InitPipeline ==
    /\ NothingStored \/ AnsweredOnce
    /\ acceptedAccessRightsEnv \in AcceptedAccessRightsEnvs
    /\ req = [r \in Reqs |-> IdleReq]
    /\ scopeRetryDue = {}
    /\ started = MaxRequests - 1
    /\ setContextTasks = EmptyMap
    /\ unhandledRejections = FALSE
    /\ container = {}
    /\ upload = IdleUpload
    /\ deleteTasks = {}
    /\ uploadsStarted = 0

NextPipeline ==
    \/ /\ started = MaxRequests - 1
       /\ \E sid \in {"s1", ""},
             uid \in {"u1", ""} \cup DOMAIN sessionProtectionDataMap,
             body \in BodyKinds, auth \in AuthHeaders, endpoint \in BOOLEAN :
             Start(1, sid, uid, body, auth, 1, endpoint)
    \/ \E outcome \in TokenOutcomes : OboReturns(1, outcome)
    \/ \E outcome \in TokenOutcomes : AppTokenReturns(1, outcome)
    \/ \E outcome \in ScopeOutcomes : ScopeReturns(1, outcome)
    \/ \E outcome \in EvalOutcomes : PromptEvalReturns(1, outcome)
    \/ \E threw \in BOOLEAN : FaissStoreLoadReturns(1, threw)
    \/ \E threw \in BOOLEAN : ChainReturns(1, threw)
    \/ \E outcome \in RetrieverOutcomes : RetrieverReturns(1, outcome)
    \/ \E i \in 1..MaxRetrieved + 1, labelInfo \in LabelInfos :
           LabelInfoReturns(1, i, labelInfo)
    \/ \E outcome \in ModelOutcomes : ModelReturns(1, outcome)
    \/ \E outcome \in EvalOutcomes : ResponseEvalReturns(1, outcome)
    \/ \E threw \in BOOLEAN : GetContextReturns(1, threw)
    \/ \E outcome \in TitleOutcomes : TitleModelReturns(1, outcome)
    \/ \E threw \in BOOLEAN : EnqueueReturns(1, threw)
    \/ \E task \in DOMAIN setContextTasks, threw \in BOOLEAN : SetContextSettles(task, threw)
    \/ Discard(1)

SpecPipeline == InitPipeline /\ [][NextPipeline]_vars


----------------------------------------------------------------------------------------------------------------------------------------
(* Invocations of postChats one after another *)

SerialScopeOutcomes ==
    {ScopeThrows, ScopeOutcome(MalformedScopeBody, "e1"),
     ScopeOutcome(ScopeBody(<<Entry(<<"uploadText">>, "evaluateInline"),
                              Entry(<<"downloadText">>, "evaluateOffline")>>), "e1"),
     ScopeOutcome(ScopeBody(<<Entry(<<"uploadText">>, "evaluateInline")>>), "e1"),
     ScopeOutcome(ScopeBody(<<Entry(<<"downloadText">>, "evaluateInline")>>), "")}

SerialRetrieverOutcomes ==
    {[threw |-> FALSE, documents |-> <<>>],
     [threw |-> FALSE, documents |-> <<DocA>>]}

SerialModelOutcomes ==
    {[threw |-> TRUE, text |-> <<>>],
     [threw |-> FALSE, text |-> <<"[", "a", "]">>]}

Init ==
    /\ sessionSequenceMap = EmptyMap
    /\ sessionProtectionDataMap = EmptyMap
    /\ acceptedAccessRightsEnv = EnvViewEdit
    /\ sessionTitle = EmptyMap
    /\ req = [r \in Reqs |-> IdleReq]
    /\ maxSequenceSent = EmptyMap
    /\ incrementsSum = EmptyMap
    /\ scopeRetryDue = {}
    /\ started = 0
    /\ setContextTasks = EmptyMap
    /\ unhandledRejections = FALSE
    /\ container = {}
    /\ upload = IdleUpload
    /\ deleteTasks = {}
    /\ uploadsStarted = 0

\* an invocation starts only when no other is in flight
NextSerial ==
    \/ \E sid \in Sessions, uid \in Users, auth \in {"bearer", "missing"} :
           Start(1, sid, uid, "valid", auth, 1, TRUE)
    \/ \E outcome \in {"ok"} : OboReturns(1, outcome)
    \/ \E outcome \in {"ok", "empty"} : AppTokenReturns(1, outcome)
    \/ \E outcome \in SerialScopeOutcomes : ScopeReturns(1, outcome)
    \/ \E outcome \in EvalOutcomes : PromptEvalReturns(1, outcome)
    \/ \E threw \in BOOLEAN : ChainReturns(1, threw)
    \/ \E outcome \in SerialRetrieverOutcomes : RetrieverReturns(1, outcome)
    \/ \E labelInfo \in {LabelThrows, LabelRights(<<"V","I","E","W">>)} :
           LabelInfoReturns(1, 1, labelInfo)
    \/ \E outcome \in SerialModelOutcomes : ModelReturns(1, outcome)
    \/ \E outcome \in EvalOutcomes : ResponseEvalReturns(1, outcome)
    \/ GetContextReturns(1, FALSE)
    \/ \E outcome \in TitleOutcomes : TitleModelReturns(1, outcome)
    \/ \E threw \in BOOLEAN : EnqueueReturns(1, threw)
    \/ \E task \in DOMAIN setContextTasks : SetContextSettles(task, FALSE)
    \/ Discard(1)

SpecSerial == Init /\ [][NextSerial]_vars

----------------------------------------------------------------------------
(* Concurrent invocations of postChats *)

ConcurrentScopeOutcomes ==
    {ScopeOutcome(ScopeBody(<<Entry(<<"uploadText">>, "evaluateInline"),
                              Entry(<<"downloadText">>, "evaluateOffline")>>), "e1"),
     ScopeOutcome(ScopeBody(<<Entry(<<"downloadText">>, "evaluateInline")>>), "")}

ConcurrentEvalOutcomes == {EvalBlocks, EvalAllows, EvalAudits}

\* the invocations interleave at their awaits
Next ==
    \/ /\ started < MaxConcurrentRequests
       /\ \E r \in Reqs, sid \in Sessions, uid \in Users :
              Start(r, sid, uid, "valid", "bearer", Cardinality(Reqs), TRUE)
    \/ \E r \in Reqs : OboReturns(r, "ok")
    \/ \E r \in Reqs : AppTokenReturns(r, "ok")
    \/ \E r \in Reqs, outcome \in ConcurrentScopeOutcomes : ScopeReturns(r, outcome)
    \/ \E r \in Reqs, outcome \in ConcurrentEvalOutcomes : PromptEvalReturns(r, outcome)
    \/ \E r \in Reqs : ChainReturns(r, FALSE)
    \/ \E r \in Reqs :
           RetrieverReturns(r, [threw |-> FALSE, documents |-> <<DocA>>])
    \/ \E r \in Reqs : LabelInfoReturns(r, 1, LabelRights(<<"V","I","E","W">>))
    \/ \E r \in Reqs :
           ModelReturns(r, [threw |-> FALSE, text |-> <<"[", "a", "]">>])
    \/ \E r \in Reqs, outcome \in ConcurrentEvalOutcomes :
           ResponseEvalReturns(r, outcome)
    \/ \E r \in Reqs : GetContextReturns(r, FALSE)
    \/ \E r \in Reqs : TitleModelReturns(r, [threw |-> FALSE, title |-> "T"])
    \/ \E r \in Reqs, threw \in BOOLEAN : EnqueueReturns(r, threw)
    \/ \E task \in DOMAIN setContextTasks : SetContextSettles(task, FALSE)
    \/ \E r \in Reqs : Discard(r)

Spec == Init /\ [][Next]_vars

----------------------------------------------------------------------------
(* The citation rewriting on answers that cite the retrieved documents *)

\* a file whose name holds two dollar signs
DocDollar == [source |-> <<"p", "$", "$">>, label_id |-> "L3", label_name |-> <<"G">>]

\* a file whose name holds a dollar sign and an ampersand
DocAmpersand == [source |-> <<"q", "$", "&">>, label_id |-> "L4", label_name |-> <<"G">>]

CitedCorpus == {DocA, DocB, DocDollar, DocAmpersand}

\* up to MaxRetrieved chunks of the corpus, two of which may be of one file
CitedDocuments == UNION {[1..n -> CitedCorpus] : n \in 0..MaxRetrieved}

CitedTexts ==
    {<<"[", "a", "]">>,
     <<"x", "[", "a", "]", "[", "b", "]">>,
     <<"[", "p", "$", "$", "]">>,
     <<"[", "q", "$", "&", "]">>,
     <<"[", "a", "]", "[", "p", "$", "$", "]", "[", "a", "]">>}

NextCitations ==
    \/ /\ started = 0
       /\ Start(1, "s1", "u1", "valid", "bearer", 1, TRUE)
    \/ OboReturns(1, "ok")
    \/ AppTokenReturns(1, "ok")
    \/ ScopeReturns(1, ScopeOutcome(ScopeBody(<<>>), "e1"))
    \/ ChainReturns(1, FALSE)
    \/ /\ req[1].pc = "awaitRetriever"
       /\ \E documents \in CitedDocuments :
              RetrieverReturns(1, [threw |-> FALSE, documents |-> documents])
    \/ \E i \in 1..MaxRetrieved + 1,
          labelInfo \in {LabelThrows, LabelRights(<<"V","I","E","W">>)} :
           LabelInfoReturns(1, i, labelInfo)
    \/ /\ req[1].pc = "awaitModel"
       /\ \E text \in CitedTexts : ModelReturns(1, [threw |-> FALSE, text |-> text])

SpecCitations == Init /\ [][NextCitations]_vars

----------------------------------------------------------------------------
(* Invocations of postDocuments one after another *)

NextDocuments ==
    \/ \E form \in {"file", "noFile", "invalid"}, filename \in Filenames,
          labelName \in LabelNames :
           UploadStart(form, filename, labelName)
    \/ \E threw \in BOOLEAN : ExistsQueryReturns(threw)
    \/ \E threw \in BOOLEAN, n \in 1..MaxChunks : LoadReturns(threw, n)
    \/ \E threw \in BOOLEAN : DeleteQueryReturns(threw)
    \/ \E task \in deleteTasks, threw \in BOOLEAN : DeleteSettles(task, threw)
    \/ \E threw \in BOOLEAN : StoreReturns(threw)
    \/ \E threw \in BOOLEAN : BlobReturns(threw)

SpecDocuments == Init /\ [][NextDocuments]_vars

----------------------------------------------------------------------------
(* processProtectionScopeApiResponse on every scope response *)

ActivitiesStrings ==
    {<<"uploadText">>, <<"downloadText">>, Both,
     <<" ", "uploadText", " ", ",", "uploadFile">>}

ScopeEntries ==
    {Entry(a, m) : a \in ActivitiesStrings, m \in Modes}
    \cup {[isString |-> FALSE, activities |-> <<>>, executionMode |-> "evaluateInline"]}

\* the scope bodies of up to MaxEntries entries
AllScopeBodies ==
    {ScopeBody(v) : v \in UNION {[1..n -> ScopeEntries] : n \in 0..MaxEntries}}

NextScope ==
    \/ /\ started = 0
       /\ Start(1, "s1", "u1", "valid", "bearer", 1, TRUE)
    \/ OboReturns(1, "ok")
    \/ AppTokenReturns(1, "ok")
    \/ /\ req[1].pc = "awaitScope"
       /\ \E body \in AllScopeBodies : ScopeReturns(1, ScopeOutcome(body, "e1"))

SpecScope == Init /\ [][NextScope]_vars


----------------------------------------------------------------------------
(* Properties *)

\* the calls of invocation record q to the given apis
CallsTo(q, apis) == {i \in 1..Len(q.calls) : q.calls[i].api \in apis}

BlockBody(q) ==
    <<[content |-> BlockMessage, role |-> "assistant", sessionId |-> q.sessionId]>>

\* the prompt was evaluated inline and the evaluation said restrictAccess
PromptBlocked(q) ==
    /\ q.uploadTextExecutionMode = "evaluateInline"
    /\ q.promptActionMode = "restrictAccess"

\* C1: when uploadText is evaluateInline and the prompt evaluation returns
\* restrictAccess, postChats returns one NDJSON line with the fixed block
\* message, and the invocation calls neither the retriever, nor a label
\* lookup, nor the chat model.
C1_PromptBlock ==
    \A r \in Reqs :
        PromptBlocked(req[r]) =>
            /\ req[r].pc = "done"
            /\ req[r].response.status = 200
            /\ req[r].response.body = BlockBody(req[r])
            /\ Len(req[r].response.body) = 1
            /\ CallsTo(req[r], {"retriever.invoke", "getLabelInfo",
                                "ragChainWithHistory.stream",
                                "titleModel.invoke"}) = {}

C1_Witness ==
    \E r \in Reqs :
        /\ PromptBlocked(req[r])
        /\ req[r].pc = "done"
        /\ CallsTo(req[r], {"invokeProcessContentApi"}) # {}

\* the bare citation of a document, as the model writes it
BareCitation(document) == <<"[">> \o document.source \o <<"]">>

\* the response evaluation calls of invocation record q
ResponseEvalCalls(q) ==
    {i \in 1..Len(q.calls) :
        q.calls[i].api = "invokeProcessContentApi" /\ q.calls[i].arg = "downloadText"}

ModelCalls(q) ==
    {i \in 1..Len(q.calls) : q.calls[i].api = "ragChainWithHistory.stream"}

\* the k-th smallest element of a set of numbers
KthSmallest(S, k) == CHOOSE i \in S : Cardinality({j \in S : j < i}) = k - 1

\* the documents at the positions idx, in the order of documents
AtPositions(documents, idx) ==
    [k \in 1..Cardinality(idx) |-> documents[KthSmallest(idx, k)]]

\* the positions of the retrieved documents the label filter has let through
FilterOutput(q) ==
    {i \in 1..Len(q.labelResults) : q.labelResults[i] = "document"}

\* what the code decides for the document at position i from its own label
\* and its own lookup
OwnDecision(q, i) ==
    /\ q.retrievedDocuments[i].label_id # ""
    /\ ~q.labelInfo[i].threw
    /\ Includes(ToLowerCase(IF acceptedAccessRightsEnv.isSet
                            THEN acceptedAccessRightsEnv.value ELSE DefaultText),
                IF q.labelInfo[i].isString
                THEN ToLowerCase(q.labelInfo[i].rights) ELSE <<>>)

\* C3: the documents given to the model as grounding context are exactly the
\* output of the label filter; no retrieved document whose lookup failed or
\* was rejected is among them.
C3_ModelContext ==
    \A r \in Reqs :
        \A c \in ModelCalls(req[r]) :
            LET q == req[r]
            IN  /\ q.calls[c].context = AtPositions(q.retrievedDocuments, FilterOutput(q))
                /\ \A i \in 1..Len(q.retrievedDocuments) :
                       (q.labelInfo[i].threw \/ ~OwnDecision(q, i))
                           => i \notin FilterOutput(q)
                /\ Len(q.calls[c].context) = Cardinality(FilterOutput(q))

C3_Witness ==
    \E r \in Reqs :
        /\ ModelCalls(req[r]) # {}
        /\ FilterOutput(req[r]) # {}
        /\ \E i \in 1..Len(req[r].retrievedDocuments) :
               /\ req[r].retrievedDocuments[i].label_id # ""
               /\ req[r].labelResults[i] = "null"

\* C4 (as claimed): every retrieved document without a labelId is in the
\* filtered set handed to the model.
C4_UnlabelledPassThrough ==
    \A r \in Reqs :
        \A c \in ModelCalls(req[r]) :
            \A i \in 1..Len(req[r].retrievedDocuments) :
                req[r].retrievedDocuments[i].label_id = "" =>
                    /\ i \in FilterOutput(req[r])
                    /\ \E k \in 1..Len(req[r].calls[c].context) :
                           req[r].calls[c].context[k] = req[r].retrievedDocuments[i]

\* the label of the document has a rights value, a string, that lower-cased
\* is contained in the lower-cased accepted-rights string
RightsContained(env, labelInfo) ==
    /\ ~labelInfo.threw
    /\ labelInfo.isString
    /\ Includes(ToLowerCase(IF env.isSet THEN env.value ELSE DefaultText),
                ToLowerCase(labelInfo.rights))

\* C5 (as claimed): the label filter output is a part of the input in which
\* every document lacks a labelId or has a rights value contained in the
\* accepted-rights string, case-insensitively; a labelled document is retained
\* if and only if that containment holds.
C5_LabelFilter ==
    \A r \in Reqs :
        \A c \in ModelCalls(req[r]) :
            LET q == req[r]
            IN  /\ q.filteredDocuments = AtPositions(q.retrievedDocuments, FilterOutput(q))
                /\ \A i \in 1..Len(q.retrievedDocuments) :
                       q.retrievedDocuments[i].label_id # "" =>
                           (i \in FilterOutput(q)
                               <=> RightsContained(acceptedAccessRightsEnv, q.labelInfo[i]))

\* label tasks are running or have run, and none is pending
LabelTasksDone(q) ==
    /\ q.pc \notin {"idle", "awaitObo", "awaitAppToken", "awaitScope",
                    "awaitPromptEval", "awaitStoreLoad", "awaitChain",
                    "awaitRetriever"}
    /\ Len(q.labelResults) = Len(q.retrievedDocuments)
    /\ \A i \in 1..Len(q.labelResults) : q.labelResults[i] # "pending"

\* C6: a label lookup that fails excludes its own document and nothing else:
\* every other document is kept or dropped on its own lookup, and the
\* invocation goes on to the model instead of failing.
C6_LookupFailureIsolated ==
    \A r \in Reqs :
        LET q == req[r]
        IN  (\E i \in 1..Len(q.labelInfo) : q.labelInfo[i].threw) =>
                /\ \A i \in 1..Len(q.labelInfo) :
                       q.labelInfo[i].threw => q.labelResults[i] = "null"
                /\ ~(q.pc = "done" /\ ModelCalls(q) = {})
                /\ LabelTasksDone(q) =>
                       /\ \A j \in 1..Len(q.retrievedDocuments) :
                              (j \in FilterOutput(q)) <=> OwnDecision(q, j)
                       /\ ModelCalls(q) # {}
                       /\ \A c \in ModelCalls(q) :
                              q.calls[c].context =
                                  AtPositions(q.retrievedDocuments,
                                      {j \in 1..Len(q.retrievedDocuments) :
                                          OwnDecision(q, j)})

C6_Witness ==
    \E r \in Reqs :
        LET q == req[r]
        IN  /\ LabelTasksDone(q)
            /\ \E i, j \in 1..Len(q.labelInfo) :
                   /\ q.labelInfo[i].threw
                   /\ j \in FilterOutput(q)
            /\ ModelCalls(q) # {}


\* the entry lists the activity among its comma-separated, trimmed names
Lists(entry, activity) ==
    \E k \in 1..Len(ActivitiesList(entry)) : ActivitiesList(entry)[k] = activity

\* the mode the claim gives to an activity for the entries value
ClaimedMode(value, activity) ==
    LET listing == {i \in 1..Len(value) : Lists(value[i], activity)}
    IN  IF \E i \in listing : value[i].executionMode = "evaluateInline"
        THEN "evaluateInline"
        ELSE IF listing # {}
             THEN value[KthSmallest(listing, 1)].executionMode
             ELSE "default"

\* the invocation has fetched a scope response and processed it
ScopeProcessed(q) == q.apiResponse.hasValue

\* C7: the mode processProtectionScopeApiResponse computes for an activity is
\* evaluateInline if any entry listing it says evaluateInline, otherwise the
\* mode of the first entry listing it; uploadText and downloadText are
\* "default" when no entry lists them.
C7_ScopeModes ==
    \A r \in Reqs :
        LET q == req[r]
            value == q.apiResponse.value
        IN  ScopeProcessed(q) =>
                /\ q.uploadTextExecutionMode = ClaimedMode(value, <<"uploadText">>)
                /\ q.downloadTextExecutionMode = ClaimedMode(value, <<"downloadText">>)
                /\ q.userId \in DOMAIN sessionProtectionDataMap
                /\ \A a \in DOMAIN sessionProtectionDataMap[q.userId].activityExecutionMap :
                       sessionProtectionDataMap[q.userId].activityExecutionMap[a]
                           = ClaimedMode(value, a)

C7_Witness ==
    \E r \in Reqs :
        LET q == req[r]
            value == q.apiResponse.value
        IN  /\ ScopeProcessed(q)
            /\ Len(value) >= 3
            /\ Lists(value[1], <<"uploadText">>)
            /\ value[1].executionMode = "evaluateOffline"
            /\ Lists(value[2], <<"uploadText">>)
            /\ value[2].executionMode = "evaluateInline"
            /\ Lists(value[3], <<"uploadText">>)
            /\ value[3].executionMode = "default"
            /\ q.uploadTextExecutionMode = "evaluateInline"
            /\ Lists(value[1], <<"downloadText">>)
            /\ ~Lists(value[2], <<"downloadText">>)
            /\ Lists(value[3], <<"downloadText">>)
            /\ q.downloadTextExecutionMode = "evaluateOffline"

\* C8 (as claimed): when the invocations of a session run one after another,
\* the stored counter of the session, between two invocations, is the sum of
\* the increments made so far: 1 for each inline evaluation performed and 2
\* for each invocation that enqueued an offline evaluation.
C8_CounterIsSum ==
    InFlight = {} =>
        \A s \in DOMAIN sessionSequenceMap \cup DOMAIN incrementsSum :
            SequenceOf(sessionSequenceMap, s) = SequenceOf(incrementsSum, s)

\* C9 (as claimed): no write to sessionSequenceMap lowers the counter of a
\* session, in any interleaving of the invocations.
C9_CounterNeverDecreases ==
    [][\A s \in DOMAIN sessionSequenceMap :
           SequenceOf(sessionSequenceMap', s) >= sessionSequenceMap[s]]_vars

\* invocation r sends a call to the policy service in this step
SendsPolicyCall(r) ==
    /\ Len(req'[r].calls) > Len(req[r].calls)
    /\ req'[r].calls[Len(req'[r].calls)].api \in PolicyApis

\* C10 (as claimed): when the invocations of a session run one after another,
\* every call to the policy service carries a sequence number greater than
\* every sequence number sent for the session before.
C10_StrictOrder ==
    [][\A r \in Reqs :
           (SendsPolicyCall(r) /\ req'[r].sessionId \in DOMAIN maxSequenceSent) =>
               req'[r].calls[Len(req'[r].calls)].sequence
                   > maxSequenceSent[req'[r].sessionId]]_vars

\* the inline evaluations among the first n calls of an invocation
InlineCallsBefore(q, n) ==
    Cardinality({j \in 1..n : q.calls[j].api = "invokeProcessContentApi"})

\* the counter value an invocation in flight read at chats-post.ts:225: its
\* local counter less the inline evaluations that have returned to it
SequenceRead(q) ==
    q.currentSequence
    - (InlineCallsBefore(q, Len(q.calls))
       - (IF q.pc \in {"awaitPromptEval", "awaitResponseEval"} THEN 1 ELSE 0))

\* C11: nothing locks or re-reads the counter.  Every call an invocation sends
\* to the policy service carries the value the invocation read when it
\* started plus the inline evaluations it made before, whatever the other
\* invocations of the session have stored or sent since; so two invocations
\* of a session that overlap can send the same sequence value (C11_Witness).
C11_UnlockedCounter ==
    \A r \in InFlight :
        \A i \in CallsTo(req[r], PolicyApis) :
            req[r].calls[i].sequence
                = SequenceRead(req[r]) + InlineCallsBefore(req[r], i - 1)

\* two invocations of one session are in flight together and each has sent
\* the policy service a prompt evaluation with the same sequence value
C11_Witness ==
    \E r1 \in InFlight, r2 \in InFlight :
        /\ r1 # r2
        /\ req[r1].sessionId = req[r2].sessionId
        /\ req[r1].pc = "awaitPromptEval"
        /\ req[r2].pc = "awaitPromptEval"
        /\ req[r1].calls[Len(req[r1].calls)].sequence
               = req[r2].calls[Len(req[r2].calls)].sequence

\* C12: a scope entry, once stored for a user, is never removed and never
\* replaced for the rest of the life of the process.
C12_NeverReplaced ==
    [][\A u \in DOMAIN sessionProtectionDataMap :
           /\ u \in DOMAIN sessionProtectionDataMap'
           /\ sessionProtectionDataMap'[u] = sessionProtectionDataMap[u]]_vars

\* invocation r receives the scope API's response in this step
ScopeCallReturns(r) ==
    /\ req[r].pc = "awaitScope"
    /\ req'[r].pc # "awaitScope"

ScopeCalls(q) == CallsTo(q, {"invokeProtectionScopeApi"})

\* the mode a cached map gives an activity: "default" when it has none
CachedMode(entry, activity) ==
    IF activity \in DOMAIN entry.activityExecutionMap
    THEN entry.activityExecutionMap[activity]
    ELSE "default"

\* invocation r has its two tokens in this step and goes on
TokensAcquired(r) ==
    /\ req[r].pc = "awaitAppToken"
    /\ req'[r].pc \notin {"awaitAppToken", "done"}

\* C13: an invocation that finds a scope entry cached for its user makes no
\* call to the scope API and goes on with the cached etag and the cached
\* uploadText and downloadText modes, "default" for an activity the cached
\* map does not have; the scope API is called only by an invocation that has
\* just found no entry.
C13_CacheHit ==
    [][\A r \in Reqs :
           /\ (TokensAcquired(r) /\ req[r].userId \in DOMAIN sessionProtectionDataMap) =>
                  LET stored == sessionProtectionDataMap[req[r].userId]
                  IN  /\ ScopeCalls(req'[r]) = {}
                      /\ req'[r].etagIdentifier = stored.etag
                      /\ req'[r].uploadTextExecutionMode
                             = CachedMode(stored, <<"uploadText">>)
                      /\ req'[r].downloadTextExecutionMode
                             = CachedMode(stored, <<"downloadText">>)
           /\ ScopeCalls(req'[r]) \ ScopeCalls(req[r]) # {} =>
                  /\ TokensAcquired(r)
                  /\ req[r].userId \notin DOMAIN sessionProtectionDataMap]_vars

\* an invocation found the entry of its user cached, called no scope API and
\* has gone on to the retriever with the cached etag and modes, uploadText
\* being absent from the cached map
C13_Witness ==
    \E r \in InFlight :
        /\ req[r].pc = "awaitRetriever"
        /\ ScopeCalls(req[r]) = {}
        /\ req[r].userId \in DOMAIN sessionProtectionDataMap
        /\ LET stored == sessionProtectionDataMap[req[r].userId]
           IN  /\ <<"uploadText">> \notin DOMAIN stored.activityExecutionMap
               /\ req[r].uploadTextExecutionMode = "default"
               /\ req[r].downloadTextExecutionMode = "evaluateInline"
               /\ req[r].etagIdentifier = stored.etag

\* the scope API has answered invocation q with a body that has no array
\* under value
MalformedScope(q) ==
    /\ q.apiResponse.valueType # "unset"
    /\ ~q.apiResponse.hasValue

\* C14 (as claimed): an invocation whose scope response has no array under
\* value goes on with uploadText and downloadText both "default", that is, it
\* invokes the retriever, and it is not failed by the malformed response.
C14_MalformedScopeContinues ==
    \A r \in Reqs :
        MalformedScope(req[r]) =>
            /\ req[r].uploadTextExecutionMode = "default"
            /\ req[r].downloadTextExecutionMode = "default"
            /\ CallsTo(req[r], {"retriever.invoke"}) # {}

\* the inline evaluations of an activity that invocation q has sent
EvalCalls(q, activity) ==
    {i \in CallsTo(q, {"invokeProcessContentApi"}) : q.calls[i].arg = activity}

\* the prompt evaluation of q was sent and has failed: the call or the parse
\* of its body threw, so that no action mode was read from it
PromptEvalFailed(q) ==
    /\ EvalCalls(q, "uploadText") # {}
    /\ q.pc # "awaitPromptEval"
    /\ q.promptActionMode = ""

\* the same of the response evaluation
ResponseEvalFailed(q) ==
    /\ EvalCalls(q, "downloadText") # {}
    /\ q.pc # "awaitResponseEval"
    /\ q.responseActionMode = ""

GenericFailure ==
    [status |-> 503, body |-> <<>>, error |-> UnavailableMessage]

\* C15: an invocation whose inline evaluation of the prompt or of the
\* response has failed has returned the generic service-unavailable response,
\* which carries no line of the answer; after a failed prompt evaluation the
\* model has not even been called.
C15_FailClosed ==
    \A r \in Reqs :
        /\ (PromptEvalFailed(req[r]) \/ ResponseEvalFailed(req[r])) =>
               /\ req[r].pc = "done"
               /\ req[r].response = GenericFailure
        /\ PromptEvalFailed(req[r]) => ModelCalls(req[r]) = {}

\* the model has answered, the evaluation of the answer has failed, and the
\* client has the generic failure
C15_Witness ==
    \E r \in Reqs :
        /\ ResponseEvalFailed(req[r])
        /\ req[r].llmResponse # <<>>
        /\ req[r].response = GenericFailure

\* C16 (as claimed): no exception raised at a stage of the pipeline leaves
\* postChats uncaught, and an invocation that has returned holds one
\* response, which after a failure is the generic service-unavailable one.
C16_ExceptionsContained ==
    /\ ~unhandledRejections
    /\ \A r \in Returned :
           /\ req[r].response.status \in {200, 400, 503}
           /\ req[r].response.status = 503 => req[r].response = GenericFailure

\* the request misses a field the endpoint requires: messages is absent or
\* empty, the last message has no content, or no user id is given
MissingField(q) ==
    /\ q.request.body # "invalidJson"
    /\ \/ q.request.body \in {"noMessages", "emptyMessages", "noContent"}
       \/ q.userId = ""

\* C17 (as claimed): a request that misses a required field is answered 400,
\* so that a 503 comes from an internal failure only.
C17_MissingFieldIs400 ==
    \A r \in Returned :
        MissingField(req[r]) => req[r].response.status = 400

\* the request of q came without a usable Authorization header
BadAuthorization(q) == q.request.authorization \in {"missing", "malformed"}

\* C18: an invocation whose Authorization header is missing or does not
\* start with "Bearer " has failed without one call to a collaborator: no
\* token exchange, scope lookup, evaluation, retrieval, label lookup or model
\* call.  Having passed the validation of its body, it has failed with the
\* generic service-unavailable response.
C18_NoCallWithoutBearer ==
    \A r \in Reqs :
        BadAuthorization(req[r]) =>
            /\ req[r].calls = <<>>
            /\ req[r].pc = "done"
            /\ req[r].response.status # 200
            /\ (req[r].request.body = "valid" /\ req[r].userId # "") =>
                   req[r].response = GenericFailure

\* a request with a well-formed body and a header of another scheme has
\* been refused
C18_Witness ==
    \E r \in Reqs :
        /\ req[r].request.body = "valid"
        /\ req[r].request.authorization = "malformed"
        /\ req[r].userId # ""
        /\ req[r].calls = <<>>
        /\ req[r].response = GenericFailure

TokenApis == {"acquireTokenOnBehalfOf", "acquireTokenByClientCredential"}

\* the on-behalf-of exchange of q has ended without an access token
OboFailed(q) ==
    /\ CallsTo(q, {"acquireTokenOnBehalfOf"}) # {}
    /\ q.pc # "awaitObo"
    /\ q.accessToken = ""

\* the client-credential exchange of q has ended without an access token
AppTokenFailed(q) ==
    /\ CallsTo(q, {"acquireTokenByClientCredential"}) # {}
    /\ q.pc # "awaitAppToken"
    /\ q.appToken = ""

\* q is past the token acquisition: it has called a collaborator other
\* than the identity provider, or waits for one, or has its answer
PastTokens(q) ==
    \/ \E i \in 1..Len(q.calls) : q.calls[i].api \notin TokenApis
    \/ q.pc \notin {"idle", "awaitObo", "awaitAppToken", "done"}
    \/ q.response.status = 200

\* C19: an invocation of which either exchange has yielded no access token
\* has failed, with the generic response and no call beyond the identity
\* provider; the client-credential exchange is called only by an invocation
\* that holds the on-behalf-of token; and an invocation past the token
\* acquisition holds both tokens.
C19_BothTokens ==
    \A r \in Reqs :
        LET q == req[r]
        IN  /\ (OboFailed(q) \/ AppTokenFailed(q)) =>
                   /\ q.pc = "done"
                   /\ q.response = GenericFailure
                   /\ ~PastTokens(q)
            /\ OboFailed(q) => CallsTo(q, {"acquireTokenByClientCredential"}) = {}
            /\ CallsTo(q, {"acquireTokenByClientCredential"}) # {} =>
                   q.accessToken # ""
            /\ PastTokens(q) => (q.accessToken # "" /\ q.appToken # "")

\* the on-behalf-of exchange has yielded a token, the client-credential
\* exchange none, and the invocation has failed holding one token
C19_Witness ==
    \E r \in Reqs :
        /\ AppTokenFailed(req[r])
        /\ req[r].accessToken # ""
        /\ Len(req[r].calls) = 2
        /\ req[r].response = GenericFailure

\* invocation r calls the offline enqueue in this step
SendsEnqueue(r) ==
    /\ Len(req'[r].calls) > Len(req[r].calls)
    /\ req'[r].calls[Len(req'[r].calls)].api = "enqueueOfflinePurviewTasksAsync"

\* the offline enqueue that invocation r called ends in this step
EnqueueEnds(r) ==
    /\ req[r].pc = "awaitEnqueue"
    /\ req'[r].pc # "awaitEnqueue"

\* C20 (as claimed): the offline enqueue is called only by an invocation
\* whose uploadText or downloadText mode is "evaluateOffline", and every
\* enqueue that was called leaves the stored counter of the session at the
\* invocation's current sequence value plus 2.
C20_EnqueueAdvancesByTwo ==
    [][\A r \in Reqs :
           /\ SendsEnqueue(r) =>
                  \/ req'[r].uploadTextExecutionMode = "evaluateOffline"
                  \/ req'[r].downloadTextExecutionMode = "evaluateOffline"
           /\ EnqueueEnds(r) =>
                  SequenceOf(sessionSequenceMap', req[r].sessionId)
                      = req[r].currentSequence + 2]_vars

EnqueueCalls(q) == CallsTo(q, {"enqueueOfflinePurviewTasksAsync"})

\* C21 (as claimed): whatever becomes of the offline enqueue, the invocation
\* that called it returns the answer: status 200 with the one line of the
\* processed answer, and no error.
C21_EnqueueFailureHidden ==
    \A r \in Returned :
        EnqueueCalls(req[r]) # {} =>
            /\ req[r].response.status = 200
            /\ req[r].response.body = jsonStream(req[r])
            /\ req[r].response.error = ""

\* C22 (as claimed): the response of an invocation does not wait for the
\* offline enqueue: an invocation that has called the enqueue has its HTTP
\* response, whether or not the enqueue has completed.
C22_EnqueueDoesNotBlock ==
    \A r \in Reqs :
        EnqueueCalls(req[r]) # {} => req[r].response # NoResponse

TitleCalls(q) == CallsTo(q, {"titleModel.invoke"})

\* getContext returns to invocation r in this step
GetContextEnds(r) ==
    /\ req[r].pc = "awaitTitleContext"
    /\ req'[r].pc # "awaitTitleContext"

\* C23: an invocation that finds the title of its session set calls no title
\* model and leaves the title and the pending title writes as they are; the
\* title model is called only by an invocation that has just found no
\* title; and a title that is set is never cleared, so that a session which
\* has its title when a request arrives has it at the title step.
C23_TitleIdempotent ==
    [][/\ \A r \in Reqs :
              /\ (GetContextEnds(r) /\ TitleOf(req[r].sessionId) # "") =>
                     /\ TitleCalls(req'[r]) = {}
                     /\ setContextTasks' = setContextTasks
                     /\ sessionTitle' = sessionTitle
              /\ TitleCalls(req'[r]) \ TitleCalls(req[r]) # {} =>
                     /\ GetContextEnds(r)
                     /\ TitleOf(req[r].sessionId) = ""
       /\ \A s \in DOMAIN sessionTitle :
              sessionTitle[s] # "" =>
                  /\ s \in DOMAIN sessionTitle'
                  /\ sessionTitle'[s] # ""]_vars

\* an invocation of a session that has its title has passed the title step
\* without a call to the title model and has its answer
C23_Witness ==
    \E r \in Returned :
        /\ CallsTo(req[r], {"getContext"}) # {}
        /\ TitleCalls(req[r]) = {}
        /\ TitleOf(req[r].sessionId) # ""
        /\ req[r].response.status = 200
        /\ req[r].response.body = jsonStream(req[r])

\* C24 (as claimed): the title model is called at most once for a session
\* and the title of a session is written at most once, however the requests
\* of the session follow or overlap one another: no invocation calls the
\* title model while another invocation of its session has called it or a
\* title write of the session is pending, and no title write lands on a
\* session that has its title.
C24_TitleOnce ==
    [][/\ \A r \in Reqs :
              TitleCalls(req'[r]) \ TitleCalls(req[r]) # {} =>
                  /\ \A r2 \in Reqs \ {r} :
                         req[r2].sessionId = req[r].sessionId =>
                             TitleCalls(req[r2]) = {}
                  /\ \A task \in DOMAIN setContextTasks :
                         task.sessionId # req[r].sessionId
       /\ \A task \in DOMAIN setContextTasks :
              SequenceOf(setContextTasks', task) < setContextTasks[task] =>
                  TitleOf(task.sessionId) = ""]_vars

\* invocation q has the answer of the model and has rewritten its citations
Answered(q) == ModelCalls(q) # {} /\ q.pc \notin {"awaitModel", "idle"} /\ q.llmResponse # <<>>

\* C25 (as claimed): for every retrieved document, kept by the label filter
\* or not, the processed answer has no bare citation [f] of its source left,
\* and has [f (Label: L)], with L "Unknown" for a document without label
\* name, if the answer of the model cited [f].
C25_CitationsRewritten ==
    \A r \in Reqs :
        Answered(req[r]) =>
            \A i \in 1..Len(req[r].retrievedDocuments) :
                LET document == req[r].retrievedDocuments[i]
                IN  /\ ~Includes(req[r].processedLlmResponse, BareCitation(document))
                    /\ Includes(req[r].llmResponse, BareCitation(document)) =>
                           Includes(req[r].processedLlmResponse,
                                    formattedReference(document))

\* C26: an invocation has called the inline evaluation of the prompt exactly
\* if its uploadText mode is "evaluateInline", and the inline evaluation of
\* the answer exactly if it has the answer of the model and its downloadText
\* mode is "evaluateInline"; each is called at most once, and never under
\* the modes "default" and "evaluateOffline".
C26_InlineOnlyWhenInline ==
    \A r \in Reqs :
        LET q == req[r]
        IN  /\ EvalCalls(q, "uploadText") # {}
                   <=> q.uploadTextExecutionMode = "evaluateInline"
            /\ EvalCalls(q, "downloadText") # {}
                   <=> (Answered(q) /\ q.downloadTextExecutionMode = "evaluateInline")
            /\ Cardinality(EvalCalls(q, "uploadText")) <= 1
            /\ Cardinality(EvalCalls(q, "downloadText")) <= 1

\* an invocation with uploadText offline and downloadText inline has its
\* answer, has sent it to the inline evaluation, and has sent no prompt
C26_Witness ==
    \E r \in Reqs :
        /\ req[r].uploadTextExecutionMode = "evaluateOffline"
        /\ req[r].downloadTextExecutionMode = "evaluateInline"
        /\ Answered(req[r])
        /\ EvalCalls(req[r], "uploadText") = {}
        /\ Cardinality(EvalCalls(req[r], "downloadText")) = 1

\* the stage of the pipeline a call belongs to
StageOfCall(call) ==
    CASE call.api \in TokenApis -> 1
      [] call.api = "invokeProtectionScopeApi" -> 2
      [] call.api = "invokeProcessContentApi" /\ call.arg = "uploadText" -> 3
      [] call.api = "retriever.invoke" -> 4
      [] call.api = "getLabelInfo" -> 5
      [] call.api = "ragChainWithHistory.stream" -> 6
      [] call.api = "invokeProcessContentApi" /\ call.arg = "downloadText" -> 7
      [] OTHER -> 8

\* the stage whose call an invocation is waiting for
StageOfPc(pc) ==
    CASE pc \in {"awaitObo", "awaitAppToken"} -> 1
      [] pc = "awaitScope" -> 2
      [] pc = "awaitPromptEval" -> 3
      [] pc \in {"awaitStoreLoad", "awaitChain", "awaitRetriever"} -> 4
      [] pc = "awaitLabels" -> 5
      [] pc = "awaitModel" -> 6
      [] pc = "awaitResponseEval" -> 7
      [] OTHER -> 8

\* C27: the calls of an invocation are made in the order of the pipeline:
\* tokens, scope lookup, prompt evaluation, retrieval, label lookups, model,
\* response evaluation.  Only the label lookups share a stage with one
\* another (and the two token exchanges with each other), and while an
\* invocation waits for the call of a stage it has made no call of a later
\* stage.
C27_PipelineOrder ==
    \A r \in InFlight :
        LET calls == req[r].calls
        IN  /\ \A i, j \in 1..Len(calls) :
                   i < j =>
                       /\ StageOfCall(calls[i]) <= StageOfCall(calls[j])
                       /\ StageOfCall(calls[i]) = StageOfCall(calls[j]) =>
                              StageOfCall(calls[i]) \in {1, 5, 8}
            /\ \A i \in 1..Len(calls) :
                   StageOfCall(calls[i]) <= StageOfPc(req[r].pc)

\* an invocation has gone through every stage, with two label lookups, and
\* waits for the evaluation of its answer
C27_Witness ==
    \E r \in InFlight :
        /\ req[r].pc = "awaitResponseEval"
        /\ {StageOfCall(req[r].calls[i]) : i \in 1..Len(req[r].calls)} = 1..7
        /\ Cardinality(CallsTo(req[r], {"getLabelInfo"})) = 2

\* the prompt was evaluated and allowed, then the loading of the store or the
\* creation of the chain failed: the invocation has ended 503 at the
\* retrieval stage with no call to the retriever
C27_WitnessChainFails ==
    \E r \in Reqs :
        /\ req[r].pc = "done"
        /\ req[r].response.status = 503
        /\ req[r].promptActionMode \notin {"", "restrictAccess"}
        /\ EvalCalls(req[r], "uploadText") # {}
        /\ CallsTo(req[r], {"retriever.invoke"}) = {}

\* an invocation without an Azure OpenAI endpoint waits for the FAISS store
\* after its prompt was evaluated, with no call to the retriever yet
C27_WitnessStoreLoad ==
    \E r \in InFlight :
        /\ req[r].pc = "awaitStoreLoad"
        /\ EvalCalls(req[r], "uploadText") # {}
        /\ CallsTo(req[r], {"retriever.invoke"}) = {}

\* the invocation has returned an answer: it has not failed and neither its
\* prompt nor its answer was blocked
AnswerReturned(q) ==
    /\ q.pc = "done"
    /\ q.response.status = 200
    /\ ~PromptBlocked(q)
    /\ q.responseActionMode # "restrictAccess"

\* the uuidv4() values
FreshIds == {Uuids[i] : i \in 1..Len(Uuids)}

\* C28: a request that is neither blocked nor failed is answered with exactly
\* one NDJSON line; the line holds the whole answer of the model after the
\* citation rewriting over the retrieved documents, with role "assistant",
\* and its sessionId is the one the client sent, or a generated id (none of
\* the ids clients send) when the client sent none.
C28_OneLineAnswer ==
    \A r \in Reqs :
        LET q == req[r]
        IN  AnswerReturned(q) =>
                /\ Len(q.response.body) = 1
                /\ ModelCalls(q) # {}
                /\ q.response.body[1].content =
                       RewriteCitations(q.llmResponse, q.retrievedDocuments, 1)
                /\ q.response.body[1].role = "assistant"
                /\ q.response.body[1].sessionId =
                       IF q.request.sessionId = ""
                       THEN q.sessionId ELSE q.request.sessionId
                /\ q.request.sessionId = "" =>
                       /\ q.response.body[1].sessionId \in FreshIds
                       /\ q.response.body[1].sessionId \notin Sessions

\* an answer with a rewritten citation has been returned to a client that
\* sent a sessionId
C28_Witness ==
    \E r \in Reqs :
        /\ AnswerReturned(req[r])
        /\ req[r].request.sessionId \in Sessions
        /\ req[r].processedLlmResponse # req[r].llmResponse
        /\ req[r].response.body[1].content = req[r].processedLlmResponse

\* an answer has been returned to a client that sent no sessionId
C28_WitnessFresh ==
    \E r \in Reqs :
        /\ AnswerReturned(req[r])
        /\ req[r].request.sessionId = ""
        /\ req[r].response.body[1].sessionId \in FreshIds

\* the positions of the retrieved documents that carry a label
Labelled(q) ==
    {i \in 1..Len(q.retrievedDocuments) : q.retrievedDocuments[i].label_id # ""}

\* the label lookups of invocation record q
LabelCalls(q) == CallsTo(q, {"getLabelInfo"})

\* C29: once the retriever has returned, the lookup of every labelled
\* document has been started, in the order of the documents and whatever
\* lookups are still pending; a lookup that has not been started is not
\* pending; and the model is invoked only when no lookup is pending.
C29_LookupsJoined ==
    \A r \in InFlight :
        LET q == req[r]
        IN  /\ q.pc = "awaitLabels" =>
                   /\ Len(q.labelResults) = Len(q.retrievedDocuments)
                   /\ Cardinality(LabelCalls(q)) = Cardinality(Labelled(q))
                   /\ \A k \in 1..Cardinality(Labelled(q)) :
                          q.calls[KthSmallest(LabelCalls(q), k)].arg =
                              q.retrievedDocuments[KthSmallest(Labelled(q), k)].label_id
                   /\ \E i \in Labelled(q) : q.labelResults[i] = "pending"
            /\ \A i \in 1..Len(q.labelResults) :
                   q.labelResults[i] = "pending" => i \in Labelled(q)
            /\ ModelCalls(q) # {} =>
                   /\ Len(q.labelResults) = Len(q.retrievedDocuments)
                   /\ Cardinality(LabelCalls(q)) = Cardinality(Labelled(q))
                   /\ \A i \in 1..Len(q.labelResults) :
                          q.labelResults[i] # "pending"
                   /\ \A c \in ModelCalls(q) : \A l \in LabelCalls(q) : l < c

\* two lookups are running together, and later the second has returned
\* while the first is still pending
C29_Witness ==
    \E r \in InFlight :
        /\ req[r].pc = "awaitLabels"
        /\ Cardinality(LabelCalls(req[r])) = 2
        /\ req[r].labelResults[1] = "pending"
        /\ req[r].labelResults[2] \in {"null", "document"}
        /\ ModelCalls(req[r]) = {}

\* the model has been invoked after two lookups, one of which failed
C29_WitnessJoined ==
    \E r \in InFlight :
        /\ ModelCalls(req[r]) # {}
        /\ Cardinality(LabelCalls(req[r])) = 2
        /\ \E i \in 1..2 : req[r].labelInfo[i].threw

\* invocation r returns its response in this step
Ends(r) == req[r].pc # "done" /\ req'[r].pc = "done"

\* C30: a step in which an invocation returns 400 or 503 leaves
\* sessionSequenceMap as it was, and no step before it wrote the map for that
\* invocation: the map changes only in a step in which an invocation returns
\* 200 from a prompt block, from a response block, or after its offline
\* enqueue has returned, and then only at the session of that invocation.
C30_FailureKeepsCounter ==
    [][/\ \A r \in Reqs :
              (Ends(r) /\ req'[r].response.status \in {400, 503}) =>
                  sessionSequenceMap' = sessionSequenceMap
       /\ sessionSequenceMap' # sessionSequenceMap =>
              \E r \in Reqs :
                  /\ Ends(r)
                  /\ req'[r].response.status = 200
                  /\ \/ /\ req[r].pc = "awaitPromptEval"
                        /\ PromptBlocked(req'[r])
                     \/ /\ req[r].pc = "awaitResponseEval"
                        /\ req'[r].responseActionMode = "restrictAccess"
                     \/ req[r].pc = "awaitEnqueue"
                  /\ \A s \in DOMAIN sessionSequenceMap :
                         s # req[r].sessionId =>
                             /\ s \in DOMAIN sessionSequenceMap'
                             /\ sessionSequenceMap'[s] = sessionSequenceMap[s]
                  /\ DOMAIN sessionSequenceMap' \subseteq
                         DOMAIN sessionSequenceMap \cup {req[r].sessionId}]_vars

\* an invocation whose prompt was evaluated, so that its own counter has
\* advanced, has failed with 503 and the stored counter of its session is
\* still the one it read
C30_Witness ==
    \E r \in Reqs :
        /\ req[r].pc = "done"
        /\ req[r].response.status = 503
        /\ EvalCalls(req[r], "uploadText") # {}
        /\ req[r].sessionId \in DOMAIN sessionSequenceMap
        /\ req[r].currentSequence > sessionSequenceMap[req[r].sessionId]

\* an invocation has been answered 400
C30_Witness400 ==
    \E r \in Reqs :
        /\ req[r].pc = "done"
        /\ req[r].response.status = 400

\* the scope entry of a user that a cache-hit test accepts
HasScopeEntry(cache, userId) ==
    userId \in DOMAIN cache /\ cache[userId].etag # ""

\* invocation r fails in this step before it has got its modes: at its
\* Authorization header, at a token exchange, at the scope call or in the
\* processing of the scope body
FailsBeforeModes(r) ==
    /\ Ends(r)
    /\ req'[r].response.status = 503
    /\ req[r].pc \in {"idle", "awaitObo", "awaitAppToken", "awaitScope"}

C31_WitnessCached ==
    \E u \in scopeRetryDue : HasScopeEntry(sessionProtectionDataMap, u)

C31_WitnessProcessing ==
    \E r \in Reqs :
        /\ req[r].pc = "done"
        /\ req[r].response.status = 503
        /\ req[r].apiResponse = MalformedScopeBody
        /\ req[r].userId \notin DOMAIN sessionProtectionDataMap

\* the response of q was evaluated inline and the evaluation said
\* restrictAccess
ResponseBlocked(q) ==
    /\ q.downloadTextExecutionMode = "evaluateInline"
    /\ q.responseActionMode = "restrictAccess"

\* C32: an invocation whose prompt or answer was blocked has returned the
\* block message and has called neither the history store, nor the title
\* model, nor the offline enqueue, whatever the title of its session and the
\* mode of the other activity.
C32_BlockSkipsTitleAndEnqueue ==
    \A r \in Reqs :
        (PromptBlocked(req[r]) \/ ResponseBlocked(req[r])) =>
            /\ req[r].pc = "done"
            /\ req[r].response.body = BlockBody(req[r])
            /\ CallsTo(req[r], {"getContext", "titleModel.invoke",
                                "enqueueOfflinePurviewTasksAsync"}) = {}

\* the answer of a session without a title was blocked while the prompt is
\* to be reported offline
C32_Witness ==
    \E r \in Reqs :
        /\ ResponseBlocked(req[r])
        /\ req[r].uploadTextExecutionMode = "evaluateOffline"
        /\ TitleOf(req[r].sessionId) = ""
        /\ req[r].response.body = BlockBody(req[r])

\* the prompt of a session without a title was blocked while the answer is
\* to be reported offline
C32_WitnessPrompt ==
    \E r \in Reqs :
        /\ PromptBlocked(req[r])
        /\ req[r].downloadTextExecutionMode = "evaluateOffline"
        /\ TitleOf(req[r].sessionId) = ""
        /\ req[r].response.body = BlockBody(req[r])

\* C33 (as claimed): a labelled retrieved document whose lookup has returned
\* without a string rights value is not in the output of the label filter,
\* whatever the accepted rights are.
C33_NoRightsExcluded ==
    \A r \in Reqs :
        LET q == req[r]
        IN  LabelTasksDone(q) =>
                \A i \in 1..Len(q.retrievedDocuments) :
                    (/\ q.retrievedDocuments[i].label_id # ""
                     /\ ~q.labelInfo[i].threw
                     /\ ~q.labelInfo[i].isString) =>
                        /\ i \notin FilterOutput(q)
                        /\ \A k \in 1..Len(q.filteredDocuments) :
                               q.filteredDocuments[k] # q.retrievedDocuments[i]

\* invocation r calls the scope API in this step
SendsScopeCall(r) == ScopeCalls(req'[r]) \ ScopeCalls(req[r]) # {}

\* C34 (as claimed): with scope lookups that succeed, the scope API is called
\* at most once for a user and the entry of a user is written at most once,
\* in any interleaving: no invocation calls the scope API while its user has
\* an entry or while another invocation of that user has called it, and an
\* entry, once written, is not written again.
C34_ScopeOncePerUser ==
    [][/\ \A r \in Reqs :
              SendsScopeCall(r) =>
                  /\ req'[r].userId \notin DOMAIN sessionProtectionDataMap
                  /\ \A r2 \in Reqs \ {r} :
                         req[r2].userId = req'[r].userId => ScopeCalls(req[r2]) = {}
       /\ \A r \in Reqs :
              ScopeCallReturns(r) =>
                  req[r].userId \notin DOMAIN sessionProtectionDataMap]_vars

\* the calls of invocation record q to the policy service, inline or offline
PolicyCalls(q) == CallsTo(q, PolicyApis)

\* C35: the policy calls of an invocation carry strictly increasing sequence
\* numbers, each the one before plus 1, from the counter the invocation read:
\* with both activities inline the response evaluation carries the number of
\* the prompt evaluation plus 1, and an offline enqueue carries the counter
\* read plus the number of inline evaluations made.
C35_SequenceWithinRequest ==
    \A r \in InFlight :
        LET q == req[r]
        IN  /\ \A i \in PolicyCalls(q) :
                   q.calls[i].sequence =
                       SequenceOf(sessionSequenceMap, q.sessionId)
                       + Cardinality({j \in PolicyCalls(q) : j < i})
            /\ \A i, j \in PolicyCalls(q) :
                   i < j => q.calls[i].sequence < q.calls[j].sequence
            /\ \A i \in EvalCalls(q, "uploadText") :
                   \A j \in EvalCalls(q, "downloadText") :
                       q.calls[j].sequence = q.calls[i].sequence + 1
            /\ \A i \in EnqueueCalls(q) :
                   q.calls[i].sequence =
                       SequenceOf(sessionSequenceMap, q.sessionId)
                       + Cardinality(CallsTo(q, {"invokeProcessContentApi"}))

\* both evaluations were made inline, of a session whose counter was stored
C35_Witness ==
    \E r \in InFlight :
        /\ req[r].pc = "awaitResponseEval"
        /\ EvalCalls(req[r], "uploadText") # {}
        /\ SequenceOf(sessionSequenceMap, req[r].sessionId) > 0
        /\ req[r].calls[Len(req[r].calls)].sequence =
               SequenceOf(sessionSequenceMap, req[r].sessionId) + 1

\* an offline enqueue was called after an inline evaluation
C35_WitnessEnqueue ==
    \E r \in InFlight :
        /\ req[r].pc = "awaitEnqueue"
        /\ CallsTo(req[r], {"invokeProcessContentApi"}) # {}
        /\ req[r].calls[Len(req[r].calls)].sequence =
               SequenceOf(sessionSequenceMap, req[r].sessionId) + 1

\* map m has another entry, or none, at key k after this step
ChangedAt(m, k) ==
    \/ (k \in DOMAIN m) # (k \in DOMAIN m')
    \/ k \in DOMAIN m /\ k \in DOMAIN m' /\ m'[k] # m[k]

\* invocation r takes a step
StepOf(r) == req'[r] # req[r]

\* C36: the counter of a session changes only in a step of an invocation of
\* that session, and the scope entry of a user only in a step of an
\* invocation of that user; a step of an invocation leaves the counters of
\* all other sessions and the entries of all other users as they are.
C36_OnlyOwnEntries ==
    [][/\ \A s \in DOMAIN sessionSequenceMap \cup DOMAIN sessionSequenceMap' :
              ChangedAt(sessionSequenceMap, s) =>
                  \E r \in Reqs : StepOf(r) /\ req[r].sessionId = s
       /\ \A u \in DOMAIN sessionProtectionDataMap \cup DOMAIN sessionProtectionDataMap' :
              ChangedAt(sessionProtectionDataMap, u) =>
                  \E r \in Reqs : StepOf(r) /\ req[r].userId = u
       /\ \A r \in Reqs :
              StepOf(r) =>
                  /\ \A s \in (DOMAIN sessionSequenceMap \cup DOMAIN sessionSequenceMap')
                                \ {req[r].sessionId} :
                         ~ChangedAt(sessionSequenceMap, s)
                  /\ \A u \in (DOMAIN sessionProtectionDataMap
                                 \cup DOMAIN sessionProtectionDataMap')
                                \ {req[r].userId} :
                         ~ChangedAt(sessionProtectionDataMap, u)]_vars

\* an invocation has stored the counter of its session and the entry of its
\* user while another session has its counter and another user their entry
C36_Witness ==
    \E r \in Returned :
        /\ req[r].response.status = 200
        /\ req[r].sessionId \in DOMAIN sessionSequenceMap
        /\ ScopeCalls(req[r]) # {}
        /\ req[r].userId \in DOMAIN sessionProtectionDataMap
        /\ DOMAIN sessionSequenceMap \ {req[r].sessionId} # {}
        /\ DOMAIN sessionProtectionDataMap \ {req[r].userId} # {}

RECURSIVE DistinctSources(_, _)
\* the documents among documents[i..] that are the first of their source in
\* documents
DistinctSources(documents, i) ==
    IF i > Len(documents) THEN <<>>
    ELSE (IF \E j \in 1..(i - 1) : documents[j].source = documents[i].source
          THEN <<>> ELSE <<documents[i]>>)
         \o DistinctSources(documents, i + 1)

\* C37 (as claimed): the citation rewriting is idempotent per source: with
\* several retrieved chunks of one file the processed answer is the one the
\* rewriting gives with one chunk per file, and the rewriting applied again
\* to the processed answer leaves it as it is, so that no citation gets a
\* second "(Label: ...)" suffix.
C37_RewriteIdempotent ==
    \A r \in Reqs :
        LET q == req[r]
        IN  Answered(q) =>
                /\ q.processedLlmResponse =
                       RewriteCitations(q.llmResponse,
                                        DistinctSources(q.retrievedDocuments, 1), 1)
                /\ RewriteCitations(q.processedLlmResponse, q.retrievedDocuments, 1)
                       = q.processedLlmResponse

\* C38 (as claimed): when postDocuments has returned success, every chunk
\* of the file in the container is one that this invocation has stored: the
\* chunks stored before under the same file name are deleted.
C38_OldChunksDeleted ==
    (upload.pc = "done" /\ upload.response.status = 200) =>
        \A c \in QueryBySource(container, upload.filename) :
            c.id.upload = upload.number

\* C39: every entry of the scope cache has a non-empty etag, "default" when
\* the scope API returned none, so that the cache-hit test on the etag of
\* the entry says the same as the presence of the entry; an invocation that
\* stored an entry stored the etag it goes on with.
C39_StoredEtagNonEmpty ==
    /\ \A u \in DOMAIN sessionProtectionDataMap :
           /\ sessionProtectionDataMap[u].etag # ""
           /\ HasScopeEntry(sessionProtectionDataMap, u)
    /\ \A u \in Users :
           HasScopeEntry(sessionProtectionDataMap, u)
               <=> u \in DOMAIN sessionProtectionDataMap
    /\ \A r \in InFlight :
           (ScopeCalls(req[r]) # {} /\ req[r].pc # "awaitScope") =>
               /\ req[r].etagIdentifier # ""
               /\ req[r].userId \in DOMAIN sessionProtectionDataMap

\* the scope API returned no etag, the entry was stored with "default", and
\* a later invocation of the user has taken it from the cache
C39_Witness ==
    \E r \in InFlight :
        /\ req[r].pc \notin {"awaitObo", "awaitAppToken"}
        /\ ScopeCalls(req[r]) = {}
        /\ req[r].userId \in DOMAIN sessionProtectionDataMap
        /\ sessionProtectionDataMap[req[r].userId].etag = "default"
        /\ req[r].etagIdentifier = "default"
        /\ req[r].downloadTextExecutionMode = "evaluateInline"


====
